---------------------------- MODULE Spec2Model ----------------------------
(***************************************************************************)
(* A model of terf: the TFRecords record codec (Writer / Reader) and the   *)
(* errgroup pipelines of the terf command (Build, Summary, Extract; the    *)
(* worker of Batch appears as a caller of the Writer).                     *)
(*                                                                         *)
(* Two state machines share this module.                                   *)
(*   SpecCodec  one output file: a caller writes records through a Writer, *)
(*              the file is closed, possibly damaged, and read back with   *)
(*              Reader.Next.                                               *)
(*   Spec       one job of the command: the producer, the workers, the     *)
(*              errgroup and the caller of the job.                        *)
(* Each specification leaves the other machine's variables at their idle   *)
(* value.                                                                  *)
(***************************************************************************)
EXTENDS Integers, Sequences, FiniteSets, TLC

(***************************************************************************)
(* Bounds of the model.                                                    *)
(***************************************************************************)
\* records written to one file
MaxRecords == 2
\* the payloads a caller writes (marshalled Examples, opaque to the codec)
Payloads == {<<>>, <<7>>, <<0, 255>>}
\* size of the bufio.Writer buffer (bufio's default is 4096; frames here are
\* 16..18 bytes, so a buffer of this size takes both paths of bufio's Write: the
\* direct write of a slice larger than the empty buffer, and fill-then-flush)
BufSize == 10
\* data rows of Build's input, worker threads, rows per shard, entries of the
\* directory Summary and Extract read
MaxRows == 4
MaxThreads == 2
MaxPerBatch == 2
MaxFiles == 3
\* records of a file whose statistics are merged
MaxStatRecords == 2
\* bytes of one row of info.csv (with the buffer of BufSize bytes, rows
\* reach the file before the final flush, as they do beyond 4096 bytes)
CsvRowLen == 4
\* the most bytes a failing sink takes (two frames are up to 36 bytes), and
\* the calls made on a Writer over such a sink
MaxRoom == 36
MaxCalls == 4
\* the most shards the channel delivers to the one worker of the worker
\* machine
MaxWorkerShards == 3

(***************************************************************************)
(* 32-bit words.  TLC's integers are 32-bit signed, so a uint32 is the     *)
(* record [hi, lo] of its two 16-bit halves, and arithmetic modulo 2^32 is *)
(* done on the halves.                                                     *)
(***************************************************************************)
Pow2(n) == 2 ^ n

U32(hi, lo) == [hi |-> hi, lo |-> lo]

\* bit i of a XOR b, and of a OR b, in place
XorBit(a, b, i) == (((a \div Pow2(i)) + (b \div Pow2(i))) % 2) * Pow2(i)
OrBit(a, b, i)  == (IF ((a \div Pow2(i)) % 2) + ((b \div Pow2(i)) % 2) > 0 THEN 1 ELSE 0) * Pow2(i)

\* bitwise XOR and OR of two 16-bit naturals
Xor16(a, b) ==
    (((XorBit(a, b, 0) + XorBit(a, b, 1)) + (XorBit(a, b, 2) + XorBit(a, b, 3)))
     + ((XorBit(a, b, 4) + XorBit(a, b, 5)) + (XorBit(a, b, 6) + XorBit(a, b, 7))))
    + (((XorBit(a, b, 8) + XorBit(a, b, 9)) + (XorBit(a, b, 10) + XorBit(a, b, 11)))
       + ((XorBit(a, b, 12) + XorBit(a, b, 13)) + (XorBit(a, b, 14) + XorBit(a, b, 15))))

Or16(a, b) ==
    (((OrBit(a, b, 0) + OrBit(a, b, 1)) + (OrBit(a, b, 2) + OrBit(a, b, 3)))
     + ((OrBit(a, b, 4) + OrBit(a, b, 5)) + (OrBit(a, b, 6) + OrBit(a, b, 7))))
    + (((OrBit(a, b, 8) + OrBit(a, b, 9)) + (OrBit(a, b, 10) + OrBit(a, b, 11)))
       + ((OrBit(a, b, 12) + OrBit(a, b, 13)) + (OrBit(a, b, 14) + OrBit(a, b, 15))))

Xor32(a, b) == U32(Xor16(a.hi, b.hi), Xor16(a.lo, b.lo))
Or32(a, b)  == U32(Or16(a.hi, b.hi), Or16(a.lo, b.lo))
Not32(a)    == U32(65535 - a.hi, 65535 - a.lo)

\* a >> n and a << n on uint32, 0 < n < 32
Shr32(a, n) == IF n < 16
               THEN U32(a.hi \div Pow2(n),
                        (a.lo \div Pow2(n)) + (a.hi % Pow2(n)) * Pow2(16 - n))
               ELSE U32(0, a.hi \div Pow2(n - 16))
Shl32(a, n) == IF n < 16
               THEN U32(((a.hi * Pow2(n)) % 65536) + (a.lo \div Pow2(16 - n)),
                        (a.lo * Pow2(n)) % 65536)
               ELSE U32((a.lo * Pow2(n - 16)) % 65536, 0)

Add32(a, b) == LET lo == a.lo + b.lo
                   hi == a.hi + b.hi + (lo \div 65536)
               IN  U32(hi % 65536, lo % 65536)

Sub32(a, b) == LET lo == a.lo - b.lo
                   hi == a.hi - b.hi - (IF lo < 0 THEN 1 ELSE 0)
               IN  U32((hi + 65536) % 65536, (lo + 65536) % 65536)

\* kMaskDelta = 0xa282ead8, as its two 16-bit halves
kMaskDeltaHi == 41602
kMaskDeltaLo == 60120
kMaskDelta == U32(kMaskDeltaHi, kMaskDeltaLo)

\* crc32.Castagnoli = 0x82f63b78, as its two 16-bit halves
CastagnoliHi == 33526
CastagnoliLo == 15224
Castagnoli == U32(CastagnoliHi, CastagnoliLo)

(***************************************************************************)
(* encoding/binary, little endian.  A byte is 0..255; a byte string is a   *)
(* sequence of bytes.                                                      *)
(***************************************************************************)
PutUint32(v) == <<v.lo % 256, v.lo \div 256, v.hi % 256, v.hi \div 256>>

Uint32(b) == U32(b[3] + 256 * b[4], b[1] + 256 * b[2])

\* n is a length, below 2^24 in every state of the model
PutUint64(n) == <<n % 256, (n \div 256) % 256, (n \div 65536) % 256, 0, 0, 0, 0, 0>>

\* a length of 2^24 or more is longer than any stream of the model
HugeLength == 16777216
Uint64(b) == IF \E k \in 4..8 : b[k] # 0 THEN HugeLength
             ELSE b[1] + 256 * b[2] + 65536 * b[3]

(***************************************************************************)
(* hash/crc32 with the Castagnoli table, as crc32.MakeTable and            *)
(* crc32.Checksum compute it (table driven, reflected).                    *)
(***************************************************************************)
Word32 == [hi : 0..65535, lo : 0..65535]

\* crc32.MakeTable: entry i of the table
RECURSIVE MakeTableEntry(_, _)
MakeTableEntry(crc, k) ==
    IF k = 0 THEN crc
    ELSE MakeTableEntry(IF crc.lo % 2 = 1 THEN Xor32(Shr32(crc, 1), Castagnoli)
                        ELSE Shr32(crc, 1),
                        k - 1)

\* the Castagnoli table, built once; Go's crc32c[i] is crc32c[i + 1] here
crc32c == [i \in 1..256 |-> MakeTableEntry(U32(0, i - 1), 8)] \o <<>>

\* one step of crc32.Checksum: crc = tab[byte(crc) ^ v] ^ (crc >> 8)
Crc32Update[crc \in Word32, v \in 0..255] ==
    Xor32(crc32c[Xor16(crc.lo % 256, v) + 1], Shr32(crc, 8))

\* crc32.Checksum(data, tab): ^0 going in, the table step for each byte in
\* order, ^0 coming out
Crc32Checksum(data) ==
    LET crcAfter[k \in 0..Len(data)] ==
            IF k = 0 THEN Not32(U32(0, 0))
            ELSE Crc32Update[crcAfter[k - 1], data[k]]
    IN  Not32(crcAfter[Len(data)])

(***************************************************************************)
(* Writer (writer.go).  The Writer holds a bufio.Writer over the sink; the *)
(* record w is [buf, sink, err, room, fails]: the bytes bufio still holds,  *)
(* the bytes that reached the underlying io.Writer (the file, or the zlib  *)
(* stream), the error bufio has latched (0: nil), the number of bytes the  *)
(* sink takes before its writes fail, and how many of its writes failed.   *)
(***************************************************************************)
NewWriter == [buf |-> <<>>, sink |-> <<>>, err |-> 0, room |-> HugeLength, fails |-> 0]

\* NewWriter on a file that takes room more bytes (a full device, a quota)
NewWriterOn(room) == [NewWriter EXCEPT !.room = room]

\* the Write of the underlying io.Writer: it takes what it has room for and
\* returns an error when that is not all of q; its k-th failure is error k
SinkWrite(w, q) ==
    LET free == w.room - Len(w.sink)
        n    == IF Len(q) <= free THEN Len(q) ELSE free
    IN  IF n = Len(q)
        THEN [n |-> n, w |-> [w EXCEPT !.sink = w.sink \o q]]
        ELSE [n |-> n, w |-> [w EXCEPT !.sink = w.sink \o SubSeq(q, 1, n),
                                        !.fails = w.fails + 1,
                                        !.err = w.fails + 1]]

\* bufio.Writer.Flush(): nothing when an error is latched or the buffer is
\* empty; otherwise the buffer goes to the sink, and on failure what was not
\* taken stays in the buffer and the error is latched
BufioFlush(w) ==
    IF w.err # 0 \/ Len(w.buf) = 0 THEN w
    ELSE LET r == SinkWrite(w, w.buf)
         IN  [r.w EXCEPT !.buf = SubSeq(w.buf, r.n + 1, Len(w.buf))]

\* bufio.Writer.Write(p).  Its loop runs while p does not fit and no error
\* is latched: with bytes in the buffer it fills the buffer and flushes it;
\* with the buffer empty it writes p directly to the sink.  After the loop
\* a latched error is returned; otherwise what is left is copied into the
\* buffer.
RECURSIVE BufioWrite(_, _)
BufioWrite(w, p) ==
    LET n == BufSize - Len(w.buf)
    IN  IF Len(p) > n /\ w.err = 0
        THEN IF Len(w.buf) = 0
             THEN LET r == SinkWrite(w, p)
                  IN  BufioWrite(r.w, SubSeq(p, r.n + 1, Len(p)))
             ELSE BufioWrite(BufioFlush([w EXCEPT !.buf = w.buf \o SubSeq(p, 1, n)]),
                             SubSeq(p, n + 1, Len(p)))
        ELSE IF w.err # 0 THEN w
        ELSE [w EXCEPT !.buf = w.buf \o p]

\* checksum with the rotation of the mask off by one bit
checksumRot16(data) == LET crc == Crc32Checksum(data)
                       IN  Add32(Or32(Shr32(crc, 16), Shl32(crc, 16)), kMaskDelta)

\* the masking of checksum: ((crc >> 15) | (crc << 17)) + kMaskDelta
maskedCrc(crc) == Add32(Or32(Shr32(crc, 15), Shl32(crc, 17)), kMaskDelta)

\* the masked CRC32C of data
checksum(data) == maskedCrc(Crc32Checksum(data))

\* the 12-byte header and the 4-byte footer Write builds for a payload
FrameHeader(payload) == LET len8 == PutUint64(Len(payload))
                        IN  len8 \o PutUint32(checksum(len8))
FrameFooter(payload) == PutUint32(checksum(payload))

\* Write with the footer written before the payload
WriterWriteFooterFirst(w, payload) ==
    BufioWrite(BufioWrite(BufioWrite(w, FrameHeader(payload)), FrameFooter(payload)),
               payload)

\* Writer.Write: three writes to the bufio.Writer.  The payload is the
\* marshalled Example (proto.Marshal is the protobuf library's).
WriterWrite(w, payload) ==
    BufioWrite(BufioWrite(BufioWrite(w, FrameHeader(payload)), payload),
               FrameFooter(payload))

\* Writer.Flush
WriterFlush(w) == BufioFlush(w)

\* Error that reports the latched error once and clears it
WriterErrorClears(w) == [BufioWrite(w, <<>>) EXCEPT !.err = 0]

\* Writer.Error: w.writer.Write(nil), whose error it returns
WriterError(w) == BufioWrite(w, <<>>)

(***************************************************************************)
(* Reader (reader.go).  The stream is a byte string and pos the number of  *)
(* bytes consumed so far.                                                  *)
(***************************************************************************)
\* io.ReadFull(r, buf) with len(buf) = n: nil when n bytes were read (also
\* for n = 0), io.EOF when none was, io.ErrUnexpectedEOF when some were
ReadFull(s, pos, n) ==
    LET avail == Len(s) - pos
    IN  IF avail >= n THEN [err |-> "nil", data |-> SubSeq(s, pos + 1, pos + n), pos |-> pos + n]
        ELSE IF avail = 0 THEN [err |-> "EOF", data |-> <<>>, pos |-> pos]
        ELSE [err |-> "ErrUnexpectedEOF", data |-> SubSeq(s, pos + 1, Len(s)), pos |-> Len(s)]

\* verifyChecksum comparing the low 16 bits only
verifyChecksumLow16(data, crcMasked) ==
    LET rot == Sub32(crcMasked, kMaskDelta)
        unmaskedCrc == Or32(Shr32(rot, 17), Shl32(rot, 15))
    IN  Crc32Checksum(data).lo = unmaskedCrc.lo

\* the unmasking with the rotation of the masking repeated
unmaskedCrcRot15(crcMasked) ==
    LET rot == Sub32(crcMasked, kMaskDelta)
    IN  Or32(Shr32(rot, 15), Shl32(rot, 17))

\* the unmasking of verifyChecksum: rot := crcMasked - kMaskDelta;
\* (rot >> 17) | (rot << 15)
unmaskedCrc(crcMasked) ==
    LET rot == Sub32(crcMasked, kMaskDelta)
    IN  Or32(Shr32(rot, 17), Shl32(rot, 15))

\* Reader.verifyChecksum
verifyChecksum(data, crcMasked) == Crc32Checksum(data) = unmaskedCrc(crcMasked)

\* Reader.Next: [err, payload, pos].  proto.Unmarshal is the protobuf
\* library's and accepts every payload proto.Marshal produced.
ReaderNext(s, pos) ==
    LET h == ReadFull(s, pos, 12)
        fail(e, at) == [err |-> e, payload |-> <<>>, pos |-> at]
    IN  IF h.err # "nil" THEN fail(h.err, h.pos)
        ELSE IF ~verifyChecksum(SubSeq(h.data, 1, 8), Uint32(SubSeq(h.data, 9, 12)))
        THEN fail("InvalidLengthCrc", h.pos)
        ELSE LET length == Uint64(SubSeq(h.data, 1, 8))
                 p == ReadFull(s, h.pos, length)
             IN  IF p.err # "nil" THEN fail(p.err, p.pos)
                 ELSE LET f == ReadFull(s, p.pos, 4)
                      IN  IF f.err # "nil" THEN fail(f.err, f.pos)
                          ELSE IF ~verifyChecksum(p.data, Uint32(f.data))
                          THEN fail("InvalidPayloadCrc", f.pos)
                          ELSE [err |-> "nil", payload |-> p.data, pos |-> f.pos]

(***************************************************************************)
(* The codec machine: one file written by a caller and read back.          *)
(*   caller  "example": the documented use (ExampleWriter): Write, then    *)
(*                      Flush, then the deferred out.Close();              *)
(*           "process": the sharding worker of Build and Batch: Write per  *)
(*                      row, then return (the deferred out.Close()).       *)
(*   written the payloads passed to Writer.Write so far                    *)
(*   wr      the Writer, [buf, sink]                                       *)
(*   wstate  "idle" | "open" | "closed";  wlast  "new" | "write" | "flush" *)
(*   file    the content of the file once it is closed                     *)
(*   damage  what happened to the file before it is read                   *)
(*   stream, rstate, rpos, out, rerr, ncalls: the Reader over the file,    *)
(*           the payloads Next returned, the last error, the calls made    *)
(***************************************************************************)
VARIABLES caller, written, wr, wstate, wlast, file, damage, stream, rstate,
          rpos, out, rerr, ncalls

cvars == <<caller, written, wr, wstate, wlast, file, damage, stream, rstate,
           rpos, out, rerr, ncalls>>

\* the calls made on a Writer over a sink that can fail, in order: for each
\* its op ("write", "flush", "error"), the error it returned (0: nil; Flush
\* returns nothing) and whether a write to the sink failed during it
VARIABLE wlog

(***************************************************************************)
(* Stats (cmd/terf/summary.go).  A Go map is a function on the finite set  *)
(* of its keys; a key that is absent reads as 0.                           *)
(***************************************************************************)
EmptyMap == [k \in {} |-> 0]
MapGet(m, k) == IF k \in DOMAIN m THEN m[k] ELSE 0

\* NewStats
NewStats == [Total |-> 0, Source |-> EmptyMap, LabelID |-> EmptyMap,
             LabelRaw |-> EmptyMap, LabelText |-> EmptyMap, Format |-> EmptyMap,
             Colorspace |-> EmptyMap]

\* for key, val := range from { m[key] = val }
MapAddOverwrite(m, from) ==
    [k \in DOMAIN m \cup DOMAIN from |-> IF k \in DOMAIN from THEN from[k] ELSE m[k]]

\* for key, val := range from { m[key] += val }
MapAdd(m, from) ==
    [k \in DOMAIN m \cup DOMAIN from |->
        IF k \in DOMAIN from THEN MapGet(m, k) + from[k] ELSE m[k]]

\* Stats.Add without its first statement, s.Total += from.Total
StatsAddMapsOnly(s, from) ==
    [Total      |-> s.Total,
     Source     |-> MapAdd(s.Source, from.Source),
     LabelID    |-> MapAdd(s.LabelID, from.LabelID),
     LabelRaw   |-> MapAdd(s.LabelRaw, from.LabelRaw),
     LabelText  |-> MapAdd(s.LabelText, from.LabelText),
     Format     |-> MapAdd(s.Format, from.Format),
     Colorspace |-> MapAdd(s.Colorspace, from.Colorspace)]

\* Stats.Add: s after s.Add(from)
StatsAdd(s, from) ==
    [Total      |-> s.Total + from.Total,
     Source     |-> MapAdd(s.Source, from.Source),
     LabelID    |-> MapAdd(s.LabelID, from.LabelID),
     LabelRaw   |-> MapAdd(s.LabelRaw, from.LabelRaw),
     LabelText  |-> MapAdd(s.LabelText, from.LabelText),
     Format     |-> MapAdd(s.Format, from.Format),
     Colorspace |-> MapAdd(s.Colorspace, from.Colorspace)]

\* the features fileSummary reads from an Example; two kinds of record
ExCat == [label |-> 1, raw |-> 10, text |-> "cat", format |-> "JPEG",
          colorspace |-> "RGB", source |-> 0]
ExDog == [label |-> 2, raw |-> 10, text |-> "dog", format |-> "PNG",
          colorspace |-> "RGB", source |-> 5]
Examples == {ExCat, ExDog}

\* m[k]++
MapInc(m, k) == [x \in DOMAIN m \cup {k} |-> IF x = k THEN MapGet(m, k) + 1 ELSE m[x]]

\* the loop body of fileSummary: one more record counted
StatsCount(s, ex) ==
    [Total      |-> s.Total + 1,
     Source     |-> MapInc(s.Source, ex.source),
     LabelID    |-> MapInc(s.LabelID, ex.label),
     LabelRaw   |-> MapInc(s.LabelRaw, ex.raw),
     LabelText  |-> MapInc(s.LabelText, ex.text),
     Format     |-> MapInc(s.Format, ex.format),
     Colorspace |-> MapInc(s.Colorspace, ex.colorspace)]

\* fileSummary on a file whose records are recs, all read without error
fileSummary(recs) ==
    LET after[k \in 0..Len(recs)] ==
            IF k = 0 THEN NewStats ELSE StatsCount(after[k - 1], recs[k])
    IN  after[Len(recs)]

(***************************************************************************)
(* The merge machine: three Stats values and one use of Stats.Add on them. *)
(*   sa, sb, sc  the values;  sacc  the receiver after the calls;          *)
(*   sop         which calls were made                                     *)
(***************************************************************************)
VARIABLES sa, sb, sc, sacc, sop

svars == <<sa, sb, sc, sacc, sop>>

StatsIdle ==
    /\ sa = NewStats /\ sb = NewStats /\ sc = NewStats /\ sacc = NewStats
    /\ sop = "idle"

(***************************************************************************)
(* Image and the Example proto (image.go, and the later image.go that      *)
(* holds the raw image bytes, kept in README.rst:205-587).  A string and a *)
(* []byte are the sequence of their bytes.  A Feature is its oneof Kind    *)
(* and the Value list of each kind of list; an Example is whether its      *)
(* Features pointer is set, and the Feature map.                           *)
(***************************************************************************)

\* Int64Feature, FloatFeature, BytesFeature
Int64Feature(val) == [kind |-> "Int64List", int64 |-> <<val>>, float |-> <<>>, bytes |-> <<>>]
FloatFeature(val) == [kind |-> "FloatList", int64 |-> <<>>, float |-> <<val>>, bytes |-> <<>>]
BytesFeature(val) == [kind |-> "BytesList", int64 |-> <<>>, float |-> <<>>, bytes |-> <<val>>]

\* what a call gives: a value, or a run-time panic (nil pointer dereference,
\* index out of range)
Returns(v) == [panic |-> FALSE, val |-> v]
Panics(v) == [panic |-> TRUE, val |-> v]

\* ExampleFeatureInt64(example, key)
ExampleFeatureInt64(example, key) ==
    IF ~example.hasFeatures THEN Panics(0)
    ELSE IF key \notin DOMAIN example.feature THEN Returns(0)
    ELSE LET f == example.feature[key]
         IN  IF f.kind # "Int64List" THEN Returns(0)
             ELSE IF f.int64 = <<>> THEN Panics(0)
             ELSE Returns(f.int64[1])

\* ExampleFeatureFloat(example, key)
ExampleFeatureFloat(example, key) ==
    IF ~example.hasFeatures THEN Panics(0)
    ELSE IF key \notin DOMAIN example.feature THEN Returns(0)
    ELSE LET f == example.feature[key]
         IN  IF f.kind # "FloatList" THEN Returns(0)
             ELSE IF f.float = <<>> THEN Panics(0)
             ELSE Returns(f.float[1])

\* ExampleFeatureBytes(example, key); nil is the empty sequence
ExampleFeatureBytes(example, key) ==
    IF ~example.hasFeatures THEN Panics(<<>>)
    ELSE IF key \notin DOMAIN example.feature THEN Returns(<<>>)
    ELSE LET f == example.feature[key]
         IN  IF f.kind # "BytesList" THEN Returns(<<>>)
             ELSE IF f.bytes = <<>> THEN Panics(<<>>)
             ELSE Returns(f.bytes[1])

\* strings.ToUpper on the bytes of an ASCII string
ToUpper(str) == [k \in DOMAIN str |-> IF str[k] \in 97..122 THEN str[k] - 32 ELSE str[k]]

\* the strings of the model: "JPEG", "RGB", "jpeg", "png", "Gray", "cat",
\* "a.png"
StrJPEG == <<74, 80, 69, 71>>
StrRGB == <<82, 71, 66>>
StrJpeg == <<106, 112, 101, 103>>
StrPng == <<112, 110, 103>>
StrGray == <<71, 114, 97, 121>>
StrCat == <<99, 97, 116>>
StrFile == <<97, 46, 112, 110, 103>>

\* image.go's constants
ColorSpace == StrRGB
Format == StrJPEG

\* a decoded image.Image is its Bounds; an encoded image is two bytes for
\* its format and one each for its width, its height and its colour model
Rect(x0, y0, x1, y1) == [minX |-> x0, minY |-> y0, maxX |-> x1, maxY |-> y1]

\* jpeg.Encode(buf, &RGBImage{i}, nil): the JPEG of the Dx by Dy pixels
JpegEncode(b) == <<255, 216, b.maxX - b.minX, b.maxY - b.minY, 0>>

\* image.Decode: the image, with its bounds at the origin, or an error
ImageDecode(raw) ==
    IF Len(raw) = 5 /\ raw[3] >= 1 /\ raw[4] >= 1
    THEN [err |-> "nil", im |-> Rect(0, 0, raw[3], raw[4])]
    ELSE [err |-> "image: unknown format", im |-> Rect(0, 0, 0, 0)]

\* the Feature map from its pairs of key and Feature
FeatureMap(pairs) ==
    [k \in {pairs[n][1] : n \in 1..Len(pairs)} |->
        pairs[CHOOSE n \in 1..Len(pairs) : pairs[n][1] = k][2]]

\* Image.MarshalExample of image.go
MarshalExample(i) ==
    [hasFeatures |-> TRUE,
     feature |-> FeatureMap(<<
        <<"image/height",       Int64Feature(i.Height)>>,
        <<"image/width",        Int64Feature(i.Width)>>,
        <<"image/colorspace",   BytesFeature(ColorSpace)>>,
        <<"image/channels",     Int64Feature(3)>>,
        <<"image/class/label",  Int64Feature(i.LabelID)>>,
        <<"image/class/raw",    Int64Feature(i.LabelRaw)>>,
        <<"image/class/source", Int64Feature(i.SourceID)>>,
        <<"image/class/text",   BytesFeature(i.LabelText)>>,
        <<"image/format",       BytesFeature(Format)>>,
        <<"image/filename",     BytesFeature(i.Filename)>>,
        <<"image/id",           Int64Feature(i.ID)>>,
        <<"image/encoded",      BytesFeature(JpegEncode(i.Image))>> >>)]

\* the assignments "i.Field = ExampleFeature...(example, key)" of a method,
\* in the order of the code: each sets its field, and the first call that
\* panics ends the method with the fields set so far
Assign(i, steps) ==
    LET after[k \in 0..Len(steps)] ==
            IF k = 0 THEN [i |-> i, panic |-> FALSE]
            ELSE IF after[k - 1].panic THEN after[k - 1]
            ELSE IF steps[k][2].panic THEN [i |-> after[k - 1].i, panic |-> TRUE]
            ELSE [i |-> [after[k - 1].i EXCEPT ![steps[k][1]] = steps[k][2].val],
                  panic |-> FALSE]
    IN  after[Len(steps)]

\* Image.UnmarshalExample of image.go, on Image i: the Image after the call,
\* the error returned, and whether the call panicked instead of returning
UnmarshalExample(i, example) ==
    LET raw == ExampleFeatureBytes(example, "image/encoded")
        dec == ImageDecode(raw.val)
        set == Assign([i EXCEPT !.Image = dec.im], <<
                  <<"ID",        ExampleFeatureInt64(example, "image/id")>>,
                  <<"Height",    ExampleFeatureInt64(example, "image/height")>>,
                  <<"Width",     ExampleFeatureInt64(example, "image/width")>>,
                  <<"LabelID",   ExampleFeatureInt64(example, "image/class/label")>>,
                  <<"LabelRaw",  ExampleFeatureInt64(example, "image/class/raw")>>,
                  <<"LabelText", ExampleFeatureBytes(example, "image/class/text")>>,
                  <<"SourceID",  ExampleFeatureInt64(example, "image/class/source")>>,
                  <<"Filename",  ExampleFeatureBytes(example, "image/filename")>> >>)
    IN  IF raw.panic THEN [i |-> i, err |-> "panic", panic |-> TRUE]
        ELSE IF dec.err # "nil" THEN [i |-> i, err |-> dec.err, panic |-> FALSE]
        ELSE IF set.panic THEN [i |-> set.i, err |-> "panic", panic |-> TRUE]
        ELSE IF set.i.Width # dec.im.maxX
        THEN [i |-> set.i, err |-> "Invalid width", panic |-> FALSE]
        ELSE IF set.i.Height # dec.im.maxY
        THEN [i |-> set.i, err |-> "Invalid height", panic |-> FALSE]
        ELSE [i |-> set.i, err |-> "nil", panic |-> FALSE]

\* Image.MarshalExample of the image.go that holds the raw bytes
MarshalExampleRaw(i) ==
    [hasFeatures |-> TRUE,
     feature |-> FeatureMap(<<
        <<"image/height",       Int64Feature(i.Height)>>,
        <<"image/width",        Int64Feature(i.Width)>>,
        <<"image/colorspace",   BytesFeature(i.Colorspace)>>,
        <<"image/channels",     Int64Feature(3)>>,
        <<"image/class/label",  Int64Feature(i.LabelID)>>,
        <<"image/class/raw",    Int64Feature(i.LabelRaw)>>,
        <<"image/class/source", Int64Feature(i.SourceID)>>,
        <<"image/class/text",   BytesFeature(i.LabelText)>>,
        <<"image/format",       BytesFeature(ToUpper(i.Format))>>,
        <<"image/filename",     BytesFeature(i.Filename)>>,
        <<"image/id",           Int64Feature(i.ID)>>,
        <<"image/encoded",      BytesFeature(i.Raw)>> >>)]

\* Image.UnmarshalExample of the image.go that holds the raw bytes
UnmarshalExampleRaw(i, example) ==
    LET set == Assign(i, <<
                  <<"ID",        ExampleFeatureInt64(example, "image/id")>>,
                  <<"Height",    ExampleFeatureInt64(example, "image/height")>>,
                  <<"Width",     ExampleFeatureInt64(example, "image/width")>>,
                  <<"LabelID",   ExampleFeatureInt64(example, "image/class/label")>>,
                  <<"LabelRaw",  ExampleFeatureInt64(example, "image/class/raw")>>,
                  <<"LabelText", ExampleFeatureBytes(example, "image/class/text")>>,
                  <<"SourceID",  ExampleFeatureInt64(example, "image/class/source")>>,
                  <<"Filename",  ExampleFeatureBytes(example, "image/filename")>>,
                  <<"Raw",       ExampleFeatureBytes(example, "image/encoded")>>,
                  <<"Format",    ExampleFeatureBytes(example, "image/format")>> >>)
    IN  [i |-> set.i, err |-> IF set.panic THEN "panic" ELSE "nil", panic |-> set.panic]

\* the Image machine's state:
\*   ikind    which image.go the Image is of ("decoded": image.go, "raw":
\*            the one that holds the raw bytes), or "example" when the run
\*            starts from an Example
\*   im       the Image;  ex  the Example;  back  the fresh Image after
\*            UnmarshalExample and the error it returned
\*   got      the last ExampleFeature call: its function, key and result
\*   ipc      what has been called
VARIABLES ikind, im, ex, back, got, ipc

ivars == <<ikind, im, ex, back, got, ipc>>

\* an Example with its Features unset
NoExample == [hasFeatures |-> FALSE, feature |-> <<>>]
NoCall == [fn |-> "none", key |-> "", res |-> Returns(0)]

ImageIdle ==
    /\ ikind = "none" /\ im = 0 /\ ex = NoExample /\ back = 0 /\ got = NoCall
    /\ ipc = "idle"

(***************************************************************************)
(* One worker goroutine and the files it has open, for Build's worker      *)
(* (cmd/terf/build.go: the loop of the g.Go function and process(shard))   *)
(* and for Batch's worker (process(ctx, shards) of the batch command).     *)
(*   fmode    which of the two workers runs                                *)
(*   fshards  the shards the channel delivers to this worker, in order,    *)
(*            before it is closed: for each whether it is compressed and   *)
(*            what fails for it (nothing, os.Create, the Writer's write)   *)
(*   fpc      the worker's position: at "range shards", before os.Create,  *)
(*            in the loop over the shard's images, at the select on        *)
(*            ctx.Done(), returned                                         *)
(*   fcur     the number of the shard the worker holds; fnext the number   *)
(*            of the next one the channel delivers                         *)
(*   fopen    the handles that are open: the os.File and the zlib.Writer   *)
(*            of a shard                                                   *)
(*   fdefer   the deferred Close calls of the function that is running,    *)
(*            in the order of their defer statements                       *)
(*   fdone    whether ctx.Done() is closed                                 *)
(*   fret     the error the worker returned                                *)
(***************************************************************************)
VARIABLES fmode, fshards, fpc, fcur, fnext, fopen, fdefer, fdone, fret

fvars == <<fmode, fshards, fpc, fcur, fnext, fopen, fdefer, fdone, fret>>

FilesIdle ==
    /\ fmode = "none" /\ fshards = <<>> /\ fpc = "idle" /\ fcur = 0 /\ fnext = 0
    /\ fopen = {} /\ fdefer = <<>> /\ fdone = FALSE
    /\ fret = [kind |-> "nil", at |-> 0]

(***************************************************************************)
(* The job machine: one run of Build, Summary or Extract over a directory. *)
(*   job, threads           the command and its thread count               *)
(*   header, rows, trailingNL, numPerBatch                                 *)
(*                          Build's input file: the first column of the    *)
(*                          header row, the kind of every data row, whether *)
(*                          the last line ends with a newline; the shard   *)
(*                          size                                           *)
(*   files, readDirFails, createFails                                      *)
(*                          the entries of the input directory, whether    *)
(*                          ioutil.ReadDir fails, whether os.Create of     *)
(*                          info.csv fails                                 *)
(*   ioFail                 Build's output directory: the operation that   *)
(*                          fails (os.Create of the shard's file, or the   *)
(*                          Writer's write to it) and the shards it fails  *)
(*                          for                                            *)
(*   mpc, ret               where the job's caller goroutine is; the value *)
(*                          the job returned                               *)
(*   nlines                 what lineCounter returned                      *)
(*   ppc, pret, ppos, shard the producer: its position, the error it       *)
(*                          returned (nil until it returns one), the rows or *)
(*                          entries consumed, the shard being filled       *)
(*   wpc, witem             the workers: position, item held               *)
(*   cpc                    the goroutine that closes the results channel  *)
(*   closedIn, closedOut    close(shards) / close(paths); close(stats) /   *)
(*                          close(images)                                  *)
(*   gerr                   the errgroup's err (set once; sets off cancel) *)
(*   recorded               the non-nil errors tasks returned, in order    *)
(*   allStats, printed      Summary: the accumulator; what was printed     *)
(*   bufout, infoCsv        Extract: the bufio.Writer over info.csv (the   *)
(*                          csv.Writer writes into it: bufio.NewWriter     *)
(*                          hands back a bufio.Writer passed to it), and   *)
(*                          the content of info.csv once it is closed      *)
(*   dispatched, received, processed, aggregated                           *)
(*                          history: shards sent, <<worker, shard>> pairs  *)
(*                          received, shards process was called on,        *)
(*                          results the caller received                    *)
(***************************************************************************)
VARIABLES job, threads, header, rows, trailingNL, numPerBatch, compress, ioFail, files,
          readDirFails, createFails, mpc, ret, nlines, ppc, pret, ppos, shard,
          wpc,
          witem, cpc, closedIn, closedOut, gerr, recorded, dispatched,
          received, processed, aggregated, allStats, printed, bufout, infoCsv

inputs == <<job, threads, header, rows, trailingNL, numPerBatch, compress, ioFail, files,
            readDirFails, createFails>>
history == <<dispatched, received, processed, aggregated>>
outputs == <<allStats, printed, bufout, infoCsv>>
pvars == <<inputs, mpc, ret, nlines, ppc, pret, ppos, shard, wpc, witem, cpc,
           closedIn, closedOut, gerr, recorded, history, outputs>>

vars == <<cvars, pvars, svars, wlog, ivars, fvars>>

\* error values: a kind and what it is about (a row, a directory entry)
Err(kind, at) == [kind |-> kind, at |-> at]
Nil == Err("nil", 0)

NoShard == [id |-> 0, total |-> 0, name |-> "", baseDir |-> "", compress |-> FALSE,
            images |-> <<>>]
NoFail == [op |-> "none", ids |-> {}]

PipeIdle ==
    /\ job = "none" /\ threads = 0 /\ header = "" /\ rows = <<>>
    /\ trailingNL = TRUE /\ numPerBatch = 0 /\ compress = FALSE
    /\ ioFail = NoFail /\ files = <<>>
    /\ readDirFails = FALSE /\ createFails = FALSE
    /\ mpc = "idle" /\ ret = Nil /\ nlines = 0
    /\ ppc = "idle" /\ pret = Nil /\ ppos = 0 /\ shard = NoShard
    /\ wpc = <<>> /\ witem = <<>> /\ cpc = "none"
    /\ closedIn = FALSE /\ closedOut = FALSE /\ gerr = Nil /\ recorded = <<>>
    /\ dispatched = <<>> /\ received = <<>> /\ processed = <<>> /\ aggregated = <<>>
    /\ allStats = NewStats /\ printed = <<>> /\ bufout = NewWriter /\ infoCsv = <<>>

NoDamage == [kind |-> "none", at |-> 0]

CodecIdle ==
    /\ caller = "none" /\ written = <<>> /\ wr = NewWriter /\ wstate = "idle"
    /\ wlast = "new" /\ file = <<>> /\ damage = NoDamage /\ stream = <<>>
    /\ rstate = "closed" /\ rpos = 0 /\ out = <<>> /\ rerr = "nil" /\ ncalls = 0
    /\ wlog = <<>>

\* os.Create and NewWriter
CodecInit ==
    /\ caller \in {"example", "process"}
    /\ written = <<>> /\ wr = NewWriter /\ wstate = "open" /\ wlast = "new"
    /\ file = <<>> /\ damage = NoDamage /\ stream = <<>>
    /\ rstate = "closed" /\ rpos = 0 /\ out = <<>> /\ rerr = "nil" /\ ncalls = 0
    /\ wlog = <<>>
    /\ PipeIdle /\ StatsIdle /\ ImageIdle /\ FilesIdle

\* w.Write(example)
WriteRecord(p) ==
    /\ wstate = "open"
    /\ Len(written) < MaxRecords
    /\ wr' = WriterWrite(wr, p)
    /\ written' = Append(written, p)
    /\ wlast' = "write"
    /\ UNCHANGED <<caller, wstate, file, damage, stream, rstate, rpos, out, rerr, ncalls>>
    /\ UNCHANGED <<pvars, svars, wlog, ivars, fvars>>

\* w.Flush(), as the documented use calls it after its writes
Flush ==
    /\ wstate = "open"
    /\ caller = "example"
    /\ wlast = "write"
    /\ wr' = WriterFlush(wr)
    /\ wlast' = "flush"
    /\ UNCHANGED <<caller, written, wstate, file, damage, stream, rstate, rpos, out, rerr, ncalls>>
    /\ UNCHANGED <<pvars, svars, wlog, ivars, fvars>>

\* the deferred out.Close() of the documented use, after the Flush
ExampleClose ==
    /\ wstate = "open"
    /\ caller = "example"
    /\ wlast # "write"
    /\ file' = wr.sink
    /\ wstate' = "closed"
    /\ UNCHANGED <<caller, written, wr, wlast, damage, stream, rstate, rpos, out, rerr, ncalls>>
    /\ UNCHANGED <<pvars, svars, wlog, ivars, fvars>>

\* process returns nil after the last row of its shard (a shard holds at
\* least one row): the deferred zout.Close() and out.Close() run; the Writer
\* is dropped as it is
ProcessReturn ==
    /\ wstate = "open"
    /\ caller = "process"
    /\ Len(written) >= 1
    /\ file' = wr.sink
    /\ wstate' = "closed"
    /\ UNCHANGED <<caller, written, wr, wlast, damage, stream, rstate, rpos, out, rerr, ncalls>>
    /\ UNCHANGED <<pvars, svars, wlog, ivars, fvars>>

\* the file with one bit flipped; bit i of the file is bit i % 8 of byte i \div 8
FlipBit(s, i) ==
    LET k == (i \div 8) + 1
        b == s[k]
        m == Pow2(i % 8)
    IN  [s EXCEPT ![k] = IF (b \div m) % 2 = 1 THEN b - m ELSE b + m]

\* os.Open and NewReader on the file as written
OpenFile ==
    /\ wstate = "closed" /\ rstate = "closed"
    /\ stream' = file
    /\ rstate' = "open"
    /\ UNCHANGED <<caller, written, wr, wstate, wlast, file, damage, rpos, out, rerr, ncalls>>
    /\ UNCHANGED <<pvars, svars, wlog, ivars, fvars>>

\* NewReader on a flushed file that lost its tail: k bytes are left
OpenTruncated(k) ==
    /\ wstate = "closed" /\ rstate = "closed"
    /\ caller = "example"
    /\ k < Len(file)
    /\ damage' = [kind |-> "trunc", at |-> k]
    /\ stream' = SubSeq(file, 1, k)
    /\ rstate' = "open"
    /\ UNCHANGED <<caller, written, wr, wstate, wlast, file, rpos, out, rerr, ncalls>>
    /\ UNCHANGED <<pvars, svars, wlog, ivars, fvars>>

\* NewReader on a flushed file with bit i flipped
OpenFlipped(i) ==
    /\ wstate = "closed" /\ rstate = "closed"
    /\ caller = "example"
    /\ i < 8 * Len(file)
    /\ damage' = [kind |-> "flip", at |-> i]
    /\ stream' = FlipBit(file, i)
    /\ rstate' = "open"
    /\ UNCHANGED <<caller, written, wr, wstate, wlast, file, rpos, out, rerr, ncalls>>
    /\ UNCHANGED <<pvars, svars, wlog, ivars, fvars>>

\* r.Next(), called as every caller in the repository does: until the first
\* error (io.EOF included)
Next_ ==
    /\ rstate = "open"
    /\ rerr = "nil"
    /\ LET r == ReaderNext(stream, rpos)
       IN  /\ rpos' = r.pos
           /\ rerr' = r.err
           /\ out' = IF r.err = "nil" THEN Append(out, r.payload) ELSE out
    /\ ncalls' = ncalls + 1
    /\ UNCHANGED <<caller, written, wr, wstate, wlast, file, damage, stream, rstate>>
    /\ UNCHANGED <<pvars, svars, wlog, ivars, fvars>>

MaxFileLen == MaxRecords * 20

CodecNext ==
    \/ \E p \in Payloads : WriteRecord(p)
    \/ Flush
    \/ ExampleClose
    \/ ProcessReturn
    \/ OpenFile
    \/ \E k \in 0..MaxFileLen : OpenTruncated(k)
    \/ \E i \in 0..(8 * MaxFileLen) : OpenFlipped(i)
    \/ Next_

SpecCodec == CodecInit /\ [][CodecNext]_vars

(***************************************************************************)
(* Properties of the codec machine.                                        *)
(***************************************************************************)
\* a frame is the 12-byte header, the payload and the 4-byte footer
FrameLen(payload) == 12 + Len(payload) + 4

\* the offset in the file of frame j of the payloads ps (j = Len(ps) + 1:
\* the length of the file)
RECURSIVE FrameStart(_, _)
FrameStart(ps, j) == IF j <= 1 THEN 0 ELSE FrameStart(ps, j - 1) + FrameLen(ps[j - 1])

FrameBoundaries(ps) == {FrameStart(ps, j) : j \in 1..(Len(ps) + 1)}

\* the frame of ps that holds byte b of the file (counted from 0)
FrameOf(ps, b) == CHOOSE j \in 1..Len(ps) : FrameStart(ps, j) <= b /\ b < FrameStart(ps, j + 1)

\* C1: after Write on p1..pn in order and Flush, the successive Next calls
\* on the bytes produced return p1..pn in order, each as written, and call
\* n + 1 returns io.EOF.
C1_RoundTrip ==
    (caller = "example" /\ damage.kind = "none" /\ rstate = "open") =>
        /\ rerr \in {"nil", "EOF"}
        /\ rerr = "nil" => (ncalls <= Len(written) /\ out = SubSeq(written, 1, ncalls))
        /\ rerr = "EOF" => (ncalls = Len(written) + 1 /\ out = written)

\* two payloads, the first one empty, read back and followed by io.EOF
C1_Witness ==
    /\ caller = "example" /\ damage.kind = "none" /\ rstate = "open"
    /\ written = << <<>>, <<0, 255>> >>
    /\ out = written /\ rerr = "EOF" /\ ncalls = 3

\* C2: Next returns io.EOF only when the stream ends at a frame boundary; a
\* stream that ends anywhere inside a frame gives an error other than io.EOF.
C2_EofOnlyAtFrameBoundary ==
    (rstate = "open" /\ damage.kind = "trunc" /\ rerr = "EOF") =>
        damage.at \in FrameBoundaries(written)

\* C3: when process finishes a shard without an error, every frame it passed
\* to Writer.Write is complete in the closed file: nothing is left in the
\* Writer's buffer.
C3_ProcessFlushesBeforeClose ==
    (caller = "process" /\ wstate = "closed") =>
        /\ wr.buf = <<>>
        /\ Len(file) = FrameStart(written, Len(written) + 1)

\* C18: read back by fileSummary's loop (Next until its first error), the
\* file process left for a shard gives every record that was written and then
\* io.EOF: the Total counted is the number of rows written, none missing or
\* unreadable.
C18_BuildOutputReadBack ==
    (caller = "process" /\ rstate = "open" /\ rerr # "nil") =>
        /\ rerr = "EOF"
        /\ Len(out) = Len(written)
        /\ out = written

\* the bytes the Writer has produced: those passed on and those in its buffer
Produced == wr.sink \o wr.buf

\* C19: the bytes produced by the Writes so far are the frames of the
\* payloads written, in order and with nothing between them; the frame of a
\* payload is 16 + len(payload) bytes: the length as 8 little-endian bytes,
\* the masked CRC32C of those 8 bytes as 4 little-endian bytes, the payload,
\* the masked CRC32C of the payload as 4 little-endian bytes.
C19_OneFramePerWrite ==
    /\ Len(Produced) = FrameStart(written, Len(written) + 1)
    /\ \A j \in 1..Len(written) :
          LET p    == written[j]
              s    == FrameStart(written, j)
              len8 == SubSeq(Produced, s + 1, s + 8)
          IN  /\ FrameStart(written, j + 1) = s + 16 + Len(p)
              /\ len8 = <<Len(p) % 256, Len(p) \div 256, 0, 0, 0, 0, 0, 0>>
              /\ SubSeq(Produced, s + 9, s + 12) = PutUint32(checksum(len8))
              /\ SubSeq(Produced, s + 13, s + 12 + Len(p)) = p
              /\ SubSeq(Produced, s + 13 + Len(p), s + 16 + Len(p))
                    = PutUint32(checksum(p))

\* two Writes of different payloads, the first frame and the start of the
\* second passed on, the rest of the second in the buffer
C19_Witness ==
    /\ written = << <<7>>, <<0, 255>> >>
    /\ wstate = "open" /\ wlast = "write"
    /\ Len(wr.sink) > 17 /\ wr.buf # <<>>
    /\ Len(Produced) = 35

\* the 32-bit values at the byte offsets of s, read as little-endian words
WordsOf(s) == {Uint32(SubSeq(s, k, k + 3)) : k \in 1..(Len(s) - 3)}

\* the words of the bytes written and of the bytes read (damaged or not)
WordsSeen == WordsOf(Produced) \cup WordsOf(stream)

\* C20: modulo 2^32 the reader's unmasking inverts the writer's masking:
\* with masked = ((crc >> 15) | (crc << 17)) + 0xa282ead8 and
\* rot = masked - 0xa282ead8, (rot >> 17) | (rot << 15) is crc; hence
\* verifyChecksum accepts checksum(data) for data.
C20_UnmaskInvertsMask ==
    /\ \A crc \in WordsSeen : unmaskedCrc(maskedCrc(crc)) = crc
    /\ \A j \in 1..Len(written) :
          /\ verifyChecksum(written[j], checksum(written[j]))
          /\ verifyChecksum(PutUint64(Len(written[j])), checksum(PutUint64(Len(written[j]))))

\* both frames of a file were read back and their four checksums accepted,
\* and among the words masked and unmasked is one whose top bit moves in the
\* rotation and whose masking wraps around 2^32
C20_Witness ==
    /\ rstate = "open" /\ damage.kind = "none" /\ rerr = "EOF"
    /\ Len(written) = 2 /\ out = written
    /\ \E crc \in WordsSeen :
          /\ crc.hi >= 32768 /\ crc.lo % 2 = 1
          /\ maskedCrc(crc).hi < kMaskDeltaHi
          /\ unmaskedCrc(maskedCrc(crc)) = crc

\* C4: with one bit of frame j flipped, the calls before j return their
\* payloads and call j fails: with the length-checksum error, the payload
\* unread, when the bit is in the 12-byte header; with the payload-checksum
\* error when it is in the payload or its CRC.  No payload is returned for
\* frame j and the error is not io.EOF.
C4_BitFlipDetected ==
    (rstate = "open" /\ damage.kind = "flip") =>
        LET b == damage.at \div 8
            j == FrameOf(written, b)
            inHeader == b - FrameStart(written, j) < 12
        IN  /\ ncalls <= j
            /\ ncalls < j => (rerr = "nil" /\ out = SubSeq(written, 1, ncalls))
            /\ ncalls = j =>
                  /\ out = SubSeq(written, 1, j - 1)
                  /\ rerr = (IF inHeader THEN "InvalidLengthCrc" ELSE "InvalidPayloadCrc")
                  /\ inHeader => rpos = FrameStart(written, j) + 12

\* a bit of the second frame's payload flipped: the first payload came back,
\* the second call gave the payload-checksum error
C4_Witness ==
    /\ rstate = "open" /\ damage.kind = "flip"
    /\ Len(written) = 2 /\ Len(written[1]) = 1
    /\ damage.at \div 8 = FrameStart(written, 2) + 12
    /\ ncalls = 2 /\ out = <<written[1]>> /\ rerr = "InvalidPayloadCrc"

(***************************************************************************)
(* The job machine (cmd/terf/build.go, summary.go, extract.go).            *)
(***************************************************************************)
\* kinds of data row in Build's input:
\*   "ok"      five columns, integer ids, an image that converts
\*   "badint"  five columns, a non-integer id or label id (FromRow fails)
\*   "badcols" not as many columns as the header (csv.Reader.Read fails
\*             with ErrFieldCount)
\*   "noimg"   a well-formed row whose image cannot be opened or converted
RowKinds == {"ok", "badint", "badcols", "noimg"}
\* kinds of directory entry: a readable record file, a record file on which
\* Reader.Next or the decoding fails, a subdirectory
FileKinds == {"ok", "corrupt", "dir"}

\* what can fail in Build's output directory: nothing; os.Create, or the
\* write of the first record, for the shards with the given ids
FailableShards == {1, 2}
IoFails == {NoFail} \cup {[op |-> o, ids |-> I] : o \in {"create", "write"},
                                                  I \in (SUBSET FailableShards) \ {{}}}

SeqsUpTo(S, n) == UNION {[1..k -> S] : k \in 0..n}

\* lineCounter: the number of '\n' in the file, minus one for the header.
\* The file is the header line and one line per row, every line ended by
\* '\n' except, without a trailing newline, the last one.
lineCounter(rws, nl) ==
    LET count == (1 + Len(rws)) - (IF nl THEN 0 ELSE 1) - 1
    IN  [count |-> count, err |-> IF count <= 0 THEN Err("nolines", 0) ELSE Nil]

\* the shard count with the division rounded down
ShardCountFloor(total, per) ==
    IF per > total THEN 1 ELSE total \div per

\* Build's and Batch's shard count:
\* int(math.Ceil(float64(total) / float64(numPerBatch))), exact on the
\* integers of the model
ShardCount(total, per) ==
    IF per > total THEN 1
    ELSE IF total % per = 0 THEN total \div per ELSE (total \div per) + 1

\* Shard.Next keeping the id
ShardNextSameID(s) ==
    [id |-> s.id, total |-> s.total, name |-> s.name, baseDir |-> s.baseDir,
     compress |-> s.compress, images |-> <<>>]

\* Shard.Next handing the rows of the shard on to the next one
ShardNextKeepImages(s) ==
    [id |-> s.id + 1, total |-> s.total, name |-> s.name, baseDir |-> s.baseDir,
     compress |-> s.compress, images |-> s.images]

\* Shard.Next starting the next shard with the last row of this one
ShardNextKeepLast(s) ==
    [id |-> s.id + 1, total |-> s.total, name |-> s.name, baseDir |-> s.baseDir,
     compress |-> s.compress, images |-> <<s.images[Len(s.images)]>>]

\* Shard.Next leaving Compress at its zero value
ShardNextNoCompress(s) ==
    [id |-> s.id + 1, total |-> s.total, name |-> s.name, baseDir |-> s.baseDir,
     compress |-> FALSE, images |-> <<>>]

\* Shard.Next
ShardNext(s) ==
    [id |-> s.id + 1, total |-> s.total, name |-> s.name, baseDir |-> s.baseDir,
     compress |-> s.compress, images |-> <<>>]

\* the receiver of Shard.Next with its rows cut off by the call
ShardNextReceiverTruncated(s) == [s EXCEPT !.images = <<>>]

\* the receiver of Shard.Next after the call: the method only reads s and
\* allocates the Shard and the slice it returns, so *s is as it was
ShardNextReceiver(s) == s

\* process(shard) of build.go: os.Create of the shard's file, then the rows
\* in order: the first image that fails, or the first Write that fails, ends
\* it with that error
process(sh, rws, fail) ==
    LET bad   == {k \in 1..Len(sh.images) : rws[sh.images[k]] = "noimg"}
        first == CHOOSE k \in bad : \A m \in bad : k <= m
        fails(op) == fail.op = op /\ sh.id \in fail.ids
    IN  IF fails("create") THEN Err("create", sh.id)
        ELSE IF fails("write") /\ 1 \notin bad THEN Err("write", sh.id)
        ELSE IF bad = {} THEN Nil
        ELSE Err("image", sh.images[first])

Workers == 1..threads
TasksExited == ppc = "exit" /\ \A w \in Workers : wpc[w] = "exit"
\* ctx.Done() is closed by the cancel the errgroup calls with its first error
ctxDone == gerr # Nil
Canceled == Err("canceled", 0)

\* g.Go keeping the error of the task that returned last
TaskReturnLast(err) ==
    /\ gerr' = IF err # Nil THEN err ELSE gerr
    /\ recorded' = IF err # Nil THEN Append(recorded, err) ELSE recorded

\* a task started with g.Go returns err: the first non-nil error is kept
TaskReturn(err) ==
    /\ gerr' = IF err # Nil /\ gerr = Nil THEN err ELSE gerr
    /\ recorded' = IF err # Nil THEN Append(recorded, err) ELSE recorded

PipeInit ==
    /\ CodecIdle /\ StatsIdle /\ ImageIdle /\ FilesIdle
    /\ job \in {"build", "summary", "extract"}
    /\ threads \in 1..MaxThreads
    /\ IF job = "build"
       THEN /\ header \in {"image_path", "path"}
            /\ rows \in SeqsUpTo(RowKinds, MaxRows)
            /\ trailingNL \in BOOLEAN
            /\ numPerBatch \in 1..MaxPerBatch
            /\ compress \in BOOLEAN
            /\ ioFail \in IoFails
            /\ files = <<>> /\ readDirFails = FALSE /\ createFails = FALSE
       ELSE /\ header = "" /\ rows = <<>> /\ trailingNL = TRUE /\ numPerBatch = 0
            /\ compress = FALSE
            /\ ioFail = NoFail
            /\ files \in SeqsUpTo(FileKinds, MaxFiles)
            /\ readDirFails \in BOOLEAN
            /\ createFails \in (IF job = "extract" THEN BOOLEAN ELSE {FALSE})
    /\ mpc = "start" /\ ret = Nil /\ nlines = 0
    /\ ppc = "idle" /\ pret = Nil /\ ppos = 0 /\ shard = NoShard
    /\ wpc = [w \in 1..threads |-> "idle"] /\ witem = [w \in 1..threads |-> 0]
    /\ cpc = "none"
    /\ closedIn = FALSE /\ closedOut = FALSE /\ gerr = Nil /\ recorded = <<>>
    /\ dispatched = <<>> /\ received = <<>> /\ processed = <<>> /\ aggregated = <<>>
    /\ allStats = NewStats /\ printed = <<>> /\ bufout = NewWriter /\ infoCsv = <<>>

\* the header check with no header rejected
InvalidHeaderNever(h) == FALSE

\* header[0] != "image_path"
InvalidHeader(h) == h # "image_path"

\* Build up to the start of its tasks: lineCounter, the shard count, the
\* header check, the first shard, the errgroup, g.Go for the producer and
\* for every worker
BuildStart ==
    /\ job = "build" /\ mpc = "start"
    /\ LET lc == lineCounter(rows, trailingNL)
       IN  IF lc.err # Nil
           THEN /\ ret' = lc.err /\ mpc' = "returned"
                /\ UNCHANGED <<nlines, shard, ppc, wpc>>
           ELSE IF InvalidHeader(header)
           THEN /\ ret' = Err("header", 0) /\ mpc' = "returned"
                /\ nlines' = lc.count
                /\ UNCHANGED <<shard, ppc, wpc>>
           ELSE /\ nlines' = lc.count
                /\ shard' = [id |-> 1, total |-> ShardCount(lc.count, numPerBatch),
                             name |-> "train", baseDir |-> "outdir",
                             compress |-> compress, images |-> <<>>]
                /\ ppc' = "read"
                /\ wpc' = [w \in Workers |-> "recv"]
                /\ mpc' = "wait"
                /\ UNCHANGED ret
    /\ UNCHANGED <<inputs, pret, ppos, witem, cpc, closedIn, closedOut, gerr, recorded,
                   history>>
    /\ UNCHANGED <<cvars, svars, outputs, wlog, ivars, fvars>>

\* the dispatch test passing only a shard that is over its size
ShardFullLate(sh, per) == Len(sh.images) > per

\* len(shard.Images)%numPerBatch == 0, after the append
ShardFull(sh, per) == Len(sh.images) % per = 0

\* Build's producer, one pass of its loop up to the next select or return:
\* r.Read, FromRow, append; and, at io.EOF, the code after the loop
BuildProducerRead ==
    /\ job = "build" /\ ppc = "read"
    /\ LET eof  == ppos = Len(rows)
           kind == IF eof THEN "eof" ELSE rows[ppos + 1]
           sh   == IF kind \in {"ok", "noimg"}
                   THEN [shard EXCEPT !.images = Append(@, ppos + 1)]
                   ELSE shard
           npc  == CASE kind = "eof"     -> IF Len(shard.images) > 0 THEN "sendlast" ELSE "exit"
                     [] kind = "badcols" -> "exit"
                     [] kind = "badint"  -> "read"
                     [] OTHER            -> IF ShardFull(sh, numPerBatch)
                                            THEN "send" ELSE "read"
           err  == IF kind = "badcols" THEN Err("csv", ppos + 1) ELSE Nil
       IN  /\ ppos' = IF eof THEN ppos ELSE ppos + 1
           /\ shard' = sh
           /\ ppc' = npc
           /\ closedIn' = (npc = "exit")
           /\ pret' = err
           /\ IF npc = "exit" THEN TaskReturn(err) ELSE UNCHANGED <<gerr, recorded>>
    /\ UNCHANGED <<inputs, mpc, ret, nlines, wpc, witem, cpc, closedOut, history>>
    /\ UNCHANGED <<cvars, svars, outputs, wlog, ivars, fvars>>

\* the select of Build's producer takes "shards <- shard" with worker w at
\* its "range shards": the unbuffered channel hands the shard over; the
\* producer goes on with shard.Next(), or returns nil after the last shard
BuildHandoff(w) ==
    /\ job = "build" /\ ppc \in {"send", "sendlast"}
    /\ wpc[w] = "recv"
    /\ witem' = [witem EXCEPT ![w] = IF ppc = "send" THEN ShardNextReceiver(shard)
                                       ELSE shard]
    /\ wpc' = [wpc EXCEPT ![w] = "work"]
    /\ dispatched' = Append(dispatched, shard)
    /\ received' = Append(received, <<w, shard>>)
    /\ IF ppc = "send"
       THEN /\ shard' = ShardNext(shard) /\ ppc' = "read"
            /\ UNCHANGED <<closedIn, gerr, recorded>>
       ELSE /\ ppc' = "exit" /\ closedIn' = TRUE /\ TaskReturn(Nil)
            /\ UNCHANGED shard
    /\ UNCHANGED <<inputs, mpc, ret, nlines, pret, ppos, cpc, closedOut, processed,
                   aggregated>>
    /\ UNCHANGED <<cvars, svars, outputs, wlog, ivars, fvars>>

\* the select of a producer takes "<-ctx.Done()": it returns ctx.Err() and
\* its deferred close runs
ProducerCancelled ==
    /\ ppc \in {"send", "sendlast"}
    /\ ctxDone
    /\ ppc' = "exit" /\ closedIn' = TRUE
    /\ pret' = Canceled
    /\ TaskReturn(Canceled)
    /\ UNCHANGED <<inputs, mpc, ret, nlines, ppos, shard, wpc, witem, cpc, closedOut, history>>
    /\ UNCHANGED <<cvars, svars, outputs, wlog, ivars, fvars>>

\* a worker's "range" over the closed input channel ends: it returns nil
WorkerRangeEnd(w) ==
    /\ wpc[w] = "recv" /\ closedIn
    /\ wpc' = [wpc EXCEPT ![w] = "exit"]
    /\ TaskReturn(Nil)
    /\ UNCHANGED <<inputs, mpc, ret, nlines, ppc, pret, ppos, shard, witem, cpc, closedIn,
                   closedOut, history>>
    /\ UNCHANGED <<cvars, svars, outputs, wlog, ivars, fvars>>

\* the worker's look at ctx.Done() always taking the default case
WorkerSeesDoneNever == FALSE

\* the worker's select with a default case after process: "<-ctx.Done()" is
\* taken exactly when the channel is closed
WorkerSeesDone == ctxDone

\* Build's worker calls process(shard): the whole call, from os.Create to
\* the deferred Close calls.  Its result is a function of the shard, so the
\* worker's "err" is not kept in a variable.
BuildWorkerProcess(w) ==
    /\ job = "build" /\ wpc[w] = "work"
    /\ processed' = Append(processed, witem[w])
    /\ wpc' = [wpc EXCEPT ![w] = "done"]
    /\ UNCHANGED <<inputs, mpc, ret, nlines, ppc, pret, ppos, shard, witem, cpc, closedIn,
                   closedOut, gerr, recorded, dispatched, received, aggregated>>
    /\ UNCHANGED <<cvars, svars, outputs, wlog, ivars, fvars>>

\* Build's worker after process(shard) has returned: "return err" to the
\* errgroup when err is not nil, otherwise the non-blocking look at
\* ctx.Done() and the next turn of "range shards"
BuildWorkerReturn(w) ==
    /\ job = "build" /\ wpc[w] = "done"
    /\ LET err == process(witem[w], rows, ioFail)
       IN  IF err # Nil
           THEN wpc' = [wpc EXCEPT ![w] = "exit"] /\ TaskReturn(err)
           ELSE IF WorkerSeesDone
           THEN wpc' = [wpc EXCEPT ![w] = "exit"] /\ TaskReturn(Canceled)
           ELSE wpc' = [wpc EXCEPT ![w] = "recv"] /\ UNCHANGED <<gerr, recorded>>
    /\ UNCHANGED <<inputs, mpc, ret, nlines, ppc, pret, ppos, shard, witem, cpc, closedIn,
                   closedOut, history>>
    /\ UNCHANGED <<cvars, svars, outputs, wlog, ivars, fvars>>

\* g.Wait() in the job's caller returns once every task has returned; the
\* job returns the errgroup's error.  Summary prints the accumulator when
\* the error is nil.  In Extract, w.Flush() (when the error is nil) and the
\* deferred bufout.Flush() and out.Close() (in either case) run.
MainWait ==
    /\ mpc = "wait" /\ TasksExited
    /\ ret' = gerr /\ mpc' = "returned"
    /\ printed' = IF job = "summary" /\ gerr = Nil THEN <<allStats>> ELSE printed
    /\ bufout' = IF job = "extract" THEN BufioFlush(bufout) ELSE bufout
    /\ infoCsv' = IF job = "extract" THEN BufioFlush(bufout).sink ELSE infoCsv
    /\ UNCHANGED <<inputs, nlines, ppc, pret, ppos, shard, wpc, witem, cpc, closedIn, closedOut,
                   gerr, recorded, history, allStats>>
    /\ UNCHANGED <<cvars, svars, wlog, ivars, fvars>>

\* Summary and Extract over a directory, up to the start of their tasks:
\* the errgroup, g.Go for the producer and every worker, and the goroutine
\* that waits for them and closes the results channel
DirStart ==
    /\ job \in {"summary", "extract"} /\ mpc = "start"
    /\ ppc' = "read"
    /\ wpc' = [w \in Workers |-> "recv"]
    /\ cpc' = "wait"
    /\ mpc' = IF job = "extract" THEN "create" ELSE "drain"
    /\ UNCHANGED <<inputs, ret, nlines, pret, ppos, shard, witem, closedIn, closedOut, gerr,
                   recorded, history>>
    /\ UNCHANGED <<cvars, svars, outputs, wlog, ivars, fvars>>

\* the producer of Summary and Extract up to its next select or return:
\* ioutil.ReadDir, then the entries in order, directories skipped
DirProducerRead ==
    /\ job \in {"summary", "extract"} /\ ppc = "read"
    /\ LET fail == ppos = 0 /\ readDirFails
           eof  == ppos = Len(files)
           npc  == IF fail \/ eof THEN "exit"
                   ELSE IF files[ppos + 1] = "dir" THEN "read" ELSE "send"
           err  == IF fail THEN Err("readdir", 0) ELSE Nil
       IN  /\ ppos' = IF fail \/ eof THEN ppos ELSE ppos + 1
           /\ ppc' = npc
           /\ closedIn' = (npc = "exit")
           /\ pret' = err
           /\ IF npc = "exit" THEN TaskReturn(err) ELSE UNCHANGED <<gerr, recorded>>
    /\ UNCHANGED <<inputs, mpc, ret, nlines, shard, wpc, witem, cpc, closedOut, history>>
    /\ UNCHANGED <<cvars, svars, outputs, wlog, ivars, fvars>>

\* the producer's select takes "paths <- path" with worker w at its
\* "range paths"
DirHandoff(w) ==
    /\ job \in {"summary", "extract"} /\ ppc = "send"
    /\ wpc[w] = "recv"
    /\ witem' = [witem EXCEPT ![w] = ppos]
    /\ wpc' = [wpc EXCEPT ![w] = "work"]
    /\ ppc' = "read"
    /\ UNCHANGED <<inputs, mpc, ret, nlines, pret, ppos, shard, cpc, closedIn, closedOut, gerr,
                   recorded, history>>
    /\ UNCHANGED <<cvars, svars, outputs, wlog, ivars, fvars>>

\* a worker of Summary or Extract runs fileSummary / extractFile on its
\* path: an error of Reader.Next or of the decoding is returned
DirWorkerFile(w) ==
    /\ job \in {"summary", "extract"} /\ wpc[w] = "work"
    /\ IF files[witem[w]] = "corrupt"
       THEN wpc' = [wpc EXCEPT ![w] = "exit"] /\ TaskReturn(Err("file", witem[w]))
       ELSE wpc' = [wpc EXCEPT ![w] = "send"] /\ UNCHANGED <<gerr, recorded>>
    /\ UNCHANGED <<inputs, mpc, ret, nlines, ppc, pret, ppos, shard, witem, cpc, closedIn,
                   closedOut, history>>
    /\ UNCHANGED <<cvars, svars, outputs, wlog, ivars, fvars>>

\* the records of the readable file at position i of the directory
FileRecords(i) ==
    CASE i % 3 = 1 -> <<ExCat>>
      [] i % 3 = 2 -> <<ExDog, ExCat>>
      [] OTHER     -> <<ExDog>>

\* the bytes of the header row of info.csv and of the row of an image of
\* file i
HeaderRow == [k \in 1..CsvRowLen |-> 0]
ImageRow(i) == [k \in 1..CsvRowLen |-> i]

\* writeHeader: one row through the csv.Writer into bufout
writeHeader(b) == BufioWrite(b, HeaderRow)

\* writeLabels returning after the row of the first image
writeLabelsFirstOnly(b, i) == BufioWrite(b, ImageRow(i))

\* writeLabels for the images of file i: one row each
writeLabels(b, i) ==
    LET n == Len(FileRecords(i))
        after[k \in 0..n] == IF k = 0 THEN b ELSE BufioWrite(after[k - 1], ImageRow(i))
    IN  after[n]

\* the result handoff with the accumulator set to the result received
ResultHandoffOverwrite(w) ==
    /\ wpc[w] = "send" /\ mpc = "drain"
    /\ aggregated' = Append(aggregated, witem[w])
    /\ wpc' = [wpc EXCEPT ![w] = "recv"]
    /\ allStats' = IF job = "summary" THEN fileSummary(FileRecords(witem[w])) ELSE allStats
    /\ bufout' = IF job = "extract" THEN writeLabels(bufout, witem[w]) ELSE bufout
    /\ UNCHANGED <<inputs, mpc, ret, nlines, ppc, pret, ppos, shard, witem, cpc, closedIn,
                   closedOut, gerr, recorded, dispatched, received, processed,
                   printed, infoCsv>>
    /\ UNCHANGED <<cvars, svars, wlog, ivars, fvars>>

\* the worker's select takes "stats <- sum" / "images <- im" with the job's
\* caller at its "range stats" / "range images", which adds the result:
\* allStats.Add(s) in Summary, writeLabels in Extract
ResultHandoff(w) ==
    /\ wpc[w] = "send" /\ mpc = "drain"
    /\ aggregated' = Append(aggregated, witem[w])
    /\ wpc' = [wpc EXCEPT ![w] = "recv"]
    /\ allStats' = IF job = "summary"
                   THEN StatsAdd(allStats, fileSummary(FileRecords(witem[w])))
                   ELSE allStats
    /\ bufout' = IF job = "extract" THEN writeLabels(bufout, witem[w]) ELSE bufout
    /\ UNCHANGED <<inputs, mpc, ret, nlines, ppc, pret, ppos, shard, witem, cpc, closedIn,
                   closedOut, gerr, recorded, dispatched, received, processed,
                   printed, infoCsv>>
    /\ UNCHANGED <<cvars, svars, wlog, ivars, fvars>>

\* the worker's select takes "<-ctx.Done()": it returns ctx.Err()
WorkerSendCancelled(w) ==
    /\ wpc[w] = "send" /\ ctxDone
    /\ wpc' = [wpc EXCEPT ![w] = "exit"]
    /\ TaskReturn(Canceled)
    /\ UNCHANGED <<inputs, mpc, ret, nlines, ppc, pret, ppos, shard, witem, cpc, closedIn,
                   closedOut, history>>
    /\ UNCHANGED <<cvars, svars, outputs, wlog, ivars, fvars>>

\* the closing goroutine waiting for the producer only
CloserAfterProducer ==
    /\ cpc = "wait" /\ ppc = "exit"
    /\ cpc' = "done" /\ closedOut' = TRUE
    /\ UNCHANGED <<inputs, mpc, ret, nlines, ppc, pret, ppos, shard, wpc, witem, closedIn, gerr,
                   recorded, history>>
    /\ UNCHANGED <<cvars, svars, outputs, wlog, ivars, fvars>>

\* go func() { g.Wait(); close(stats) }()
Closer ==
    /\ cpc = "wait" /\ TasksExited
    /\ cpc' = "done" /\ closedOut' = TRUE
    /\ UNCHANGED <<inputs, mpc, ret, nlines, ppc, pret, ppos, shard, wpc, witem, closedIn, gerr,
                   recorded, history>>
    /\ UNCHANGED <<cvars, svars, outputs, wlog, ivars, fvars>>

\* Extract: os.Create of info.csv, after the tasks were started; on failure
\* Extract returns the error; otherwise bufout, the csv.Writer and
\* writeHeader
ExtractCreate ==
    /\ job = "extract" /\ mpc = "create"
    /\ IF createFails
       THEN ret' = Err("create", 0) /\ mpc' = "returned" /\ UNCHANGED bufout
       ELSE mpc' = "drain" /\ bufout' = writeHeader(NewWriter) /\ UNCHANGED ret
    /\ UNCHANGED <<inputs, nlines, ppc, pret, ppos, shard, wpc, witem, cpc, closedIn, closedOut,
                   gerr, recorded, history, allStats, printed, infoCsv>>
    /\ UNCHANGED <<cvars, svars, wlog, ivars, fvars>>

\* the caller's range over the closed results channel ends
DrainEnd ==
    /\ mpc = "drain" /\ closedOut
    /\ mpc' = "wait"
    /\ UNCHANGED <<inputs, ret, nlines, ppc, pret, ppos, shard, wpc, witem, cpc, closedIn,
                   closedOut, gerr, recorded, history>>
    /\ UNCHANGED <<cvars, svars, outputs, wlog, ivars, fvars>>

PipeNext ==
    \/ BuildStart
    \/ BuildProducerRead
    \/ \E w \in Workers : BuildHandoff(w)
    \/ ProducerCancelled
    \/ \E w \in Workers : WorkerRangeEnd(w)
    \/ \E w \in Workers : BuildWorkerProcess(w)
    \/ \E w \in Workers : BuildWorkerReturn(w)
    \/ MainWait
    \/ DirStart
    \/ DirProducerRead
    \/ \E w \in Workers : DirHandoff(w)
    \/ \E w \in Workers : DirWorkerFile(w)
    \/ \E w \in Workers : ResultHandoff(w)
    \/ \E w \in Workers : WorkerSendCancelled(w)
    \/ Closer
    \/ ExtractCreate
    \/ DrainEnd

Spec == PipeInit /\ [][PipeNext]_vars

(***************************************************************************)
(* Properties of the job machine.                                          *)
(***************************************************************************)
ShardIds(q) == {q[i].id : i \in DOMAIN q}
TasksGone == ppc \in {"idle", "exit"} /\ \A w \in Workers : wpc[w] \in {"idle", "exit"}

\* C5: in Build, every shard the producer dispatched was received by exactly
\* one worker, no shard is processed twice, and when Build returns nil every
\* dispatched shard has been processed.
C5_EachShardToOneWorker ==
    job = "build" =>
        /\ \A i \in DOMAIN dispatched :
               Cardinality({k \in DOMAIN received : received[k][2].id = dispatched[i].id}) = 1
        /\ \A k \in DOMAIN received : \E i \in DOMAIN dispatched : received[k][2] = dispatched[i]
        /\ \A i, j \in DOMAIN processed : i # j => processed[i].id # processed[j].id
        /\ \A i \in DOMAIN processed : \E k \in DOMAIN received : received[k][2] = processed[i]
        /\ (mpc = "returned" /\ ret = Nil) => ShardIds(processed) = ShardIds(dispatched)

\* Build returned nil after two shards went to two different workers
C5_Witness ==
    /\ job = "build" /\ mpc = "returned" /\ ret = Nil
    /\ Len(dispatched) >= 2 /\ Len(processed) = Len(dispatched)
    /\ received[1][1] # received[2][1]

\* C6: in Summary and Extract over a directory, when a worker's file gave an
\* error, the job returns the first such error recorded, not nil and not the
\* cancellation error.
C6_FirstWorkerErrorReturned ==
    (job \in {"summary", "extract"} /\ mpc = "returned"
       /\ \E i \in DOMAIN recorded : recorded[i].kind = "file") =>
        LET first == CHOOSE i \in DOMAIN recorded :
                        /\ recorded[i].kind = "file"
                        /\ \A k \in 1..(i - 1) : recorded[k].kind # "file"
        IN  ret = recorded[first]

\* C7: when Build, Summary or Extract has returned, every producer and worker
\* it started has exited.
C7_TasksExitedOnReturn == mpc = "returned" => TasksGone

\* C8: the job always ends: a state in which no step is possible is one in
\* which the job has returned and every task it started has exited.  (Every
\* run of the machine is finite, so with weak fairness on every task each run
\* reaches such a state.)
C8_NoDeadlock == (~ENABLED PipeNext) => (mpc = "returned" /\ TasksGone)

\* C9: the shard count Build computes is 1 when per > total, and otherwise
\* the least k with k * per >= total.
C9_ShardCountLaw ==
    (job = "build" /\ ppc # "idle") =>
        shard.total = IF numPerBatch > nlines THEN 1
                      ELSE CHOOSE k \in 1..nlines :
                               k * numPerBatch >= nlines /\ (k - 1) * numPerBatch < nlines

\* three lines counted, two rows per shard: two shards
C9_Witness ==
    /\ job = "build" /\ ppc # "idle"
    /\ nlines = 3 /\ numPerBatch = 2 /\ shard.total = 2

\* C10: for n >= 1 well-formed rows and shard size p, Build dispatches
\* exactly T = total_shards(n, p) shards, with ids 1..T, all with total T,
\* the first T - 1 with p rows and the last with n - (T - 1) * p.
C10_ShardsOfWellFormedInput ==
    (job = "build" /\ header = "image_path" /\ Len(rows) >= 1
       /\ (\A i \in DOMAIN rows : rows[i] = "ok") /\ mpc = "returned") =>
        LET n == Len(rows)
            T == ShardCount(n, numPerBatch)
        IN  /\ Len(dispatched) = T
            /\ \A i \in DOMAIN dispatched :
                   /\ dispatched[i].id = i
                   /\ dispatched[i].total = T
                   /\ Len(dispatched[i].images) =
                          IF i < T THEN numPerBatch ELSE n - (T - 1) * numPerBatch

\* the rows of the input that FromRow accepts, as their positions, in order
ParsedRows(rws) ==
    LET parses(i) == rws[i] \in {"ok", "noimg"}
    IN  SelectSeq([i \in 1..Len(rws) |-> i], parses)

\* the shards an input stands for: shard k holds the parsed rows
\* (k - 1) * per + 1 .. k * per (the last one those that are left) and
\* carries the total computed from the line count
ShardsOfInput(rws, nl, per) ==
    LET parsed == ParsedRows(rws)
        m      == Len(parsed)
        count  == (m + per - 1) \div per
        total  == ShardCount(lineCounter(rws, nl).count, per)
    IN  {[id |-> k, total |-> total, name |-> "train", baseDir |-> "outdir",
          compress |-> compress,
          images |-> SubSeq(parsed, (k - 1) * per + 1, IF k * per < m THEN k * per ELSE m)]
            : k \in 1..count}

\* C11: whatever the thread count and the interleaving, a Build that ends
\* without error has processed the same shards: the ids, totals and rows per
\* id that the input alone fixes, each shard once (so the same number of
\* records over all shards).
C11_SameShardsForAnyThreads ==
    (job = "build" /\ mpc = "returned" /\ ret = Nil) =>
        /\ {processed[i] : i \in DOMAIN processed} = ShardsOfInput(rows, trailingNL, numPerBatch)
        /\ Len(processed) = Cardinality(ShardsOfInput(rows, trailingNL, numPerBatch))

\* two workers, and the second shard was processed before the first
C11_Witness ==
    /\ job = "build" /\ mpc = "returned" /\ ret = Nil
    /\ threads = 2 /\ Len(processed) >= 2
    /\ processed[1].id = 2 /\ processed[2].id = 1

\* C12: in Build a row whose image cannot be opened, decoded or converted is
\* skipped: no worker returns an error because of it, so it neither cancels
\* the job nor becomes the error Build returns.
C12_ImageFailureSkipped ==
    job = "build" =>
        /\ \A i \in DOMAIN recorded : recorded[i].kind # "image"
        /\ ret.kind # "image"

\* C14: in Build's producer a malformed row (wrong number of columns, or a
\* non-integer id or label id) is skipped: the producer never returns an
\* error because of it, and the job is not cancelled by it.
C14_MalformedRowsSkipped ==
    job = "build" =>
        /\ \A i \in DOMAIN recorded : recorded[i].kind # "csv"
        /\ gerr.kind # "csv"

IoError(e) == e.kind \in {"create", "write"}

\* C13 as stated: whenever creating a shard's file or writing to it failed
\* in a worker, Build returns that worker's error.  (Stated for inputs whose
\* rows are all well-formed with images that convert, so that no other kind
\* of error is in play.)
C13_IoErrorReturned ==
    (job = "build" /\ mpc = "returned" /\ \A i \in DOMAIN rows : rows[i] = "ok") =>
        \A i \in DOMAIN recorded : IoError(recorded[i]) => ret = recorded[i]

\* C13, amended: when creating a shard's file or writing to it fails, the
\* worker returns that error and the cancellation signal has fired; when
\* Build returns, the producer has exited and Build returns the first error
\* any task returned -- that error unless another task failed before it --
\* never nil and never the cancellation error.
C13_FirstErrorReturned ==
    (job = "build" /\ \E i \in DOMAIN recorded : IoError(recorded[i])) =>
        /\ \A i \in DOMAIN recorded :
               IoError(recorded[i]) =>
                   /\ recorded[i].kind = ioFail.op /\ recorded[i].at \in ioFail.ids
                   /\ recorded[i].at \in ShardIds(processed)
        /\ ctxDone
        /\ gerr = recorded[1]
        /\ mpc = "returned" =>
               /\ ppc = "exit"
               /\ ret = recorded[1]
               /\ ret.kind \notin {"nil", "canceled"}

\* os.Create failed for a shard, the producer then left its select with the
\* cancellation error, and Build returned the os.Create error
C13_Witness ==
    /\ job = "build" /\ mpc = "returned"
    /\ Len(recorded) >= 2
    /\ recorded[1].kind = "create" /\ recorded[2].kind = "canceled"
    /\ ret = recorded[1]

(***************************************************************************)
(* The merge machine (Stats.Add).                                          *)
(***************************************************************************)
\* the Stats values tried: what fileSummary gives for every file of up to
\* MaxStatRecords records, and a value holding a key with count 0
StatsPool ==
    {fileSummary(recs) : recs \in SeqsUpTo(Examples, MaxStatRecords)}
        \cup {[NewStats EXCEPT !.Source = [k \in {7} |-> 0]]}

StatsInit ==
    /\ CodecIdle /\ PipeIdle /\ ImageIdle /\ FilesIdle
    /\ sa \in StatsPool /\ sb \in StatsPool /\ sc \in StatsPool
    /\ sacc = NewStats /\ sop = "new"

\* a.Add(b); a.Add(c)
AddOneByOne ==
    /\ sop = "new"
    /\ sacc' = StatsAdd(StatsAdd(sa, sb), sc)
    /\ sop' = "a+b+c"
    /\ UNCHANGED <<sa, sb, sc, cvars, pvars, wlog, ivars, fvars>>

\* b.Add(c); a.Add(b)
AddMerged ==
    /\ sop = "new"
    /\ sacc' = StatsAdd(sa, StatsAdd(sb, sc))
    /\ sop' = "a+(b+c)"
    /\ UNCHANGED <<sa, sb, sc, cvars, pvars, wlog, ivars, fvars>>

\* b.Add(a)
AddSwapped ==
    /\ sop = "new"
    /\ sacc' = StatsAdd(sb, sa)
    /\ sop' = "b+a"
    /\ UNCHANGED <<sa, sb, sc, cvars, pvars, wlog, ivars, fvars>>

\* a.Add(NewStats())
AddEmpty ==
    /\ sop = "new"
    /\ sacc' = StatsAdd(sa, NewStats)
    /\ sop' = "a+0"
    /\ UNCHANGED <<sa, sb, sc, cvars, pvars, wlog, ivars, fvars>>

StatsNext == AddOneByOne \/ AddMerged \/ AddSwapped \/ AddEmpty

SpecStats == StatsInit /\ [][StatsNext]_vars

\* the same Total and the same count for every key of every map
SameMap(m, n) == \A k \in DOMAIN m \cup DOMAIN n : MapGet(m, k) = MapGet(n, k)
SameCounts(x, y) ==
    /\ x.Total = y.Total
    /\ SameMap(x.Source, y.Source) /\ SameMap(x.LabelID, y.LabelID)
    /\ SameMap(x.LabelRaw, y.LabelRaw) /\ SameMap(x.LabelText, y.LabelText)
    /\ SameMap(x.Format, y.Format) /\ SameMap(x.Colorspace, y.Colorspace)

\* C15: Stats.Add is associative (adding b then c into a gives the counts of
\* adding b merged with c into a) and commutative (a into b gives the counts
\* of b into a), and adding an empty Stats leaves a unchanged.
C15_AddIsCommutativeMerge ==
    /\ sop = "a+b+c"   => SameCounts(sacc, StatsAdd(sa, StatsAdd(sb, sc)))
    /\ sop = "a+(b+c)" => SameCounts(sacc, StatsAdd(StatsAdd(sa, sb), sc))
    /\ sop = "b+a"     => SameCounts(sacc, StatsAdd(sa, sb))
    /\ sop = "a+0"     => sacc = sa

\* b was added into a that shares some keys with it and lacks others
C15_Witness ==
    /\ sop = "b+a"
    /\ sa.Total = 2 /\ sb.Total = 1
    /\ DOMAIN sa.LabelText = {"cat", "dog"} /\ DOMAIN sb.LabelText = {"dog"}
    /\ sacc.LabelText["dog"] = 2 /\ sacc.LabelText["cat"] = 1 /\ sacc.Total = 3

(***************************************************************************)
(* What Summary prints and what Extract leaves in info.csv.                *)
(***************************************************************************)

\* C31: a shard handed to the queue is not modified afterwards: the shard a
\* worker holds, and every shard process was called on, is the shard as it
\* was at dispatch (id, total, rows), while the producer goes on with a shard
\* that Shard.Next made: id one higher, the same total, and only rows read
\* after the dispatch.
C31_DispatchedShardUntouched ==
    job = "build" =>
        /\ \A w \in Workers : wpc[w] \in {"work", "done"} =>
              /\ witem[w].id \in 1..Len(dispatched)
              /\ witem[w] = dispatched[witem[w].id]
        /\ \A i \in 1..Len(processed) :
              /\ processed[i].id \in 1..Len(dispatched)
              /\ processed[i] = dispatched[processed[i].id]
        /\ (ppc \in {"read", "send", "sendlast"} /\ dispatched # <<>>) =>
              LET last == dispatched[Len(dispatched)]
              IN  /\ shard.id = last.id + 1 /\ shard.total = last.total
                  /\ \A k \in 1..Len(shard.images) :
                        shard.images[k] > last.images[Len(last.images)]

\* a worker holds the first shard, of two rows, while the producer has
\* read on and is at its select with the second shard
C31_Witness ==
    /\ job = "build" /\ numPerBatch = 2 /\ ppc = "sendlast"
    /\ \E w \in Workers : wpc[w] = "work" /\ witem[w].images = <<1, 2>>
    /\ shard.id = 2 /\ shard.images = <<3>>

\* the rows of the shards dispatched, one shard after the other
DispatchedRows ==
    LET upTo[k \in 0..Len(dispatched)] ==
            IF k = 0 THEN <<>> ELSE upTo[k - 1] \o dispatched[k].images
    IN  upTo[Len(dispatched)]

\* C30: when Build's producer has ended without error, the rows of the
\* dispatched shards, concatenated in id order, are the rows of the input
\* that parsed, in input order: each in exactly one shard, none lost or
\* duplicated.
C30_DispatchedRowsAreParsedRows ==
    (job = "build" /\ ppc = "exit" /\ pret = Nil) =>
        /\ \A i \in 1..Len(dispatched) : dispatched[i].id = i
        /\ DispatchedRows = ParsedRows(rows)

\* the producer has returned nil on an input whose first row was skipped and
\* whose other rows went into a full and a partial shard
C30_Witness ==
    /\ job = "build" /\ ppc = "exit" /\ pret = Nil
    /\ numPerBatch = 2 /\ rows = <<"badint", "ok", "noimg", "ok">>
    /\ Len(dispatched) = 2 /\ DispatchedRows = <<2, 3, 4>>

\* C29: Build's producer dispatches a shard exactly when it has reached
\* numPerBatch rows, and at the end of the input the partial shard if and
\* only if it holds a row: a dispatched shard holds 1..numPerBatch rows, all
\* but the last exactly numPerBatch, and none is empty.
C29_ShardSizes ==
    job = "build" =>
        /\ \A i \in 1..Len(dispatched) :
              /\ Len(dispatched[i].images) \in 1..numPerBatch
              /\ i < Len(dispatched) => Len(dispatched[i].images) = numPerBatch
        /\ ppc = "read" => Len(shard.images) < numPerBatch
        /\ ppc = "send" => Len(shard.images) = numPerBatch
        /\ ppc = "sendlast" => (Len(shard.images) \in 1..(numPerBatch - 1) /\ ppos = Len(rows))
        /\ (ppc = "exit" /\ pret = Nil) =>
              LET left == Len(ParsedRows(rows)) % numPerBatch
              IN  IF left = 0
                  THEN \A i \in 1..Len(dispatched) : Len(dispatched[i].images) = numPerBatch
                  ELSE /\ dispatched # <<>>
                       /\ Len(dispatched[Len(dispatched)].images) = left

\* the producer has returned nil after a full shard and a partial one, with
\* a skipped row in the input
C29_Witness ==
    /\ job = "build" /\ ppc = "exit" /\ pret = Nil
    /\ numPerBatch = 2 /\ rows = <<"ok", "badint", "ok", "ok">>
    /\ Len(dispatched) = 2
    /\ dispatched[1].images = <<1, 3>> /\ dispatched[2].images = <<4>>

\* C28: the shards Build's producer dispatched carry the ids 1, 2, 3, ... in
\* dispatch order, and each carries the total, name, base directory and
\* compress flag of the first; for every input, skipped rows included.
C28_DispatchedIdsAndFields ==
    job = "build" =>
        \A i \in 1..Len(dispatched) :
            /\ dispatched[i].id = i
            /\ dispatched[i].total = dispatched[1].total
            /\ dispatched[i].name = dispatched[1].name
            /\ dispatched[i].baseDir = dispatched[1].baseDir
            /\ dispatched[i].compress = dispatched[1].compress
            /\ dispatched[i].compress = compress /\ dispatched[i].name = "train"

\* three shards of a compressed build dispatched from an input with a
\* skipped row between the rows of the first and of the second shard
C28_Witness ==
    /\ job = "build" /\ compress /\ numPerBatch = 1
    /\ rows = <<"ok", "badint", "ok", "ok">>
    /\ Len(dispatched) = 3 /\ dispatched[3].id = 3 /\ dispatched[3].compress
    /\ dispatched[3].images = <<4>>

\* C27: once the cancellation signal has fired, no handoff on a queue
\* completes any more: no shard or path passes from the producer to a worker
\* and no result from a worker to the aggregator.
C27_NoHandoffAfterCancel ==
    [][ctxDone => (dispatched' = dispatched /\ received' = received
                     /\ aggregated' = aggregated)]_vars

\* C26: for an input of a header and n >= 1 data rows, with or without a
\* newline after the last row, lineCounter returns n, so the total Build
\* gives its shards is total_shards(n, per).
C26_LineCounterCountsRows ==
    (job = "build" /\ mpc # "start" /\ Len(rows) >= 1) =>
        /\ ret.kind # "nolines"
        /\ nlines = Len(rows)
        /\ ppc # "idle" => shard.total = ShardCount(Len(rows), numPerBatch)

\* %.5d of fmt.Sprintf for a number below 100000: its five decimal digits
Digits5(n) == <<(n \div 10000) % 10, (n \div 1000) % 10, (n \div 100) % 10,
                (n \div 10) % 10, n % 10>>

\* the file name made without the shard's id
outfileOfTotal(sh) == [name |-> sh.name, id |-> Digits5(sh.total), of |-> Digits5(sh.total)]

\* the name of the file process creates for a shard:
\* fmt.Sprintf("%s-%.5d-of-%.5d", shard.Name, shard.ID, shard.Total),
\* as its three parts; the name is Build's default
outfile(sh) == [name |-> sh.name, id |-> Digits5(sh.id), of |-> Digits5(sh.total)]

\* the shard files a build has created
ShardFiles == {outfile(processed[k]) : k \in 1..Len(processed)}

\* the sum of the counts of a map
RECURSIVE MapSum(_)
MapSum(m) ==
    IF DOMAIN m = {} THEN 0
    ELSE LET k == CHOOSE x \in DOMAIN m : TRUE
         IN  m[k] + MapSum([x \in DOMAIN m \ {k} |-> m[x]])

\* Total is the sum of the counts of each of the six maps
TotalIsSumOfEveryMap(st) ==
    /\ st.Total = MapSum(st.LabelText) /\ st.Total = MapSum(st.LabelID)
    /\ st.Total = MapSum(st.LabelRaw)  /\ st.Total = MapSum(st.Source)
    /\ st.Total = MapSum(st.Format)    /\ st.Total = MapSum(st.Colorspace)

\* the number of records of the files whose results were added
RecordsAdded ==
    LET upTo[k \in 0..Len(aggregated)] ==
            IF k = 0 THEN 0 ELSE upTo[k - 1] + Len(FileRecords(aggregated[k]))
    IN  upTo[Len(aggregated)]

\* C36: the Stats fileSummary returns for a file, and Summary's accumulator
\* after any number of Stats.Add calls on such values, starting from an empty
\* Stats, has Total equal to the sum of the counts of each of its maps and
\* equal to the number of records read.
C36_TotalIsSumOfCounts ==
    job = "summary" =>
        /\ \A i \in 1..Len(files) : files[i] = "ok" =>
              /\ TotalIsSumOfEveryMap(fileSummary(FileRecords(i)))
              /\ fileSummary(FileRecords(i)).Total = Len(FileRecords(i))
        /\ TotalIsSumOfEveryMap(allStats)
        /\ allStats.Total = RecordsAdded

\* the results of three files, four records, were added in an order that is
\* not the order of the directory
C36_Witness ==
    /\ job = "summary" /\ files = <<"ok", "ok", "ok">>
    /\ aggregated = <<2, 1, 3>>
    /\ allStats.Total = 4 /\ MapSum(allStats.LabelText) = 4
    /\ DOMAIN allStats.Format = {"JPEG", "PNG"}

\* C35: in Build, Summary and Extract no task sends on a closed channel and
\* no channel is closed twice.  Once the shards/paths channel is closed its
\* only sender, the producer, has exited; once the results channel is closed
\* the producer and every worker have exited, so no worker is at its send.
\* Each channel is closed in one step only, the producer's return and the
\* closing goroutine's step after g.Wait(), taken from a state where the
\* channel is open, and a closed channel stays closed.
C35_NoSendOnClosedNoDoubleClose ==
    /\ [](job \in {"build", "summary", "extract"} =>
            /\ closedIn => ppc = "exit"
            /\ closedOut => (cpc = "done" /\ TasksExited
                              /\ \A w \in Workers : wpc[w] # "send")
            /\ (job = "build") => ~closedOut)
    /\ [][/\ (ppc # "exit" /\ ppc' = "exit") <=> (~closedIn /\ closedIn')
          /\ (cpc # "done" /\ cpc' = "done") <=> (~closedOut /\ closedOut')
          /\ closedIn => closedIn'
          /\ closedOut => closedOut']_vars

\* a Summary with two workers has sent two paths and two results, both
\* channels have been closed, and it has returned nil
C35_Witness ==
    /\ job = "summary" /\ threads = 2 /\ files = <<"ok", "dir", "ok">>
    /\ closedIn /\ closedOut /\ Len(aggregated) = 2
    /\ mpc = "returned" /\ ret = Nil

\* C34: in Build, a worker that finishes a shard once the cancellation signal
\* has fired exits and takes no new shard, whether it held the shard when the
\* signal fired or received it afterwards; so after the signal a worker
\* starts on at most one further shard.  A worker that has exited stays so.
C34_AtMostOneShardAfterCancel ==
    [][job = "build" =>
          \A w \in Workers :
              /\ (ctxDone' /\ wpc[w] \in {"work", "done"}) =>
                    wpc'[w] \in {"work", "done", "exit"}
              /\ wpc[w] = "exit" => wpc'[w] = "exit"]_vars

\* the first shard's image failed in one worker while the other worker was
\* in the middle of the second, last shard: that worker has finished its
\* shard and returned the cancellation error
C34_Witness ==
    /\ job = "build" /\ threads = 2 /\ numPerBatch = 1 /\ rows = <<"noimg", "ok">>
    /\ pret = Nil /\ Len(processed) = 2
    /\ recorded = <<Err("image", 1), Canceled>>
    /\ \A w \in Workers : wpc[w] = "exit"

\* C33: when Build has returned nil, the ids of the shards it dispatched are
\* exactly 1..Total, Total being the count every shard carries.
C33_DispatchedIdsAreOneToTotal ==
    (job = "build" /\ mpc = "returned" /\ ret = Nil) =>
        /\ dispatched # <<>>
        /\ \A i \in 1..Len(dispatched) :
              dispatched[i].total = dispatched[1].total
        /\ ShardIds(dispatched) = 1..dispatched[1].total

\* C32: in Build two distinct dispatched shards never have the same output
\* file name, two workers never hold shards that go to the same file, and no
\* file is created twice.
C32_DistinctShardsDistinctFiles ==
    job = "build" =>
        /\ \A i, j \in 1..Len(dispatched) :
              i # j => outfile(dispatched[i]) # outfile(dispatched[j])
        /\ \A v, w \in Workers :
              (v # w /\ wpc[v] \in {"work", "done"} /\ wpc[w] \in {"work", "done"}) =>
                  outfile(witem[v]) # outfile(witem[w])
        /\ \A i, j \in 1..Len(processed) :
              i # j => outfile(processed[i]) # outfile(processed[j])

\* two workers are in process at the same time, one with the first and one
\* with the second shard, and a third shard has been written before
C32_Witness ==
    /\ job = "build" /\ threads = 2
    /\ wpc[1] = "work" /\ wpc[2] = "work"
    /\ Len(processed) = 1 /\ Len(dispatched) = 3
    /\ outfile(witem[1]).id = Digits5(3) /\ outfile(witem[2]).id = Digits5(2)

\* C23: a build that has produced T shard files has numbered them from 0:
\* train-00000-of-T, ..., train-(T-1)-of-T.
C23_ShardFilesNumberedFromZero ==
    (job = "build" /\ mpc = "returned" /\ ret = Nil /\ processed # <<>>) =>
        LET T == Cardinality(ShardFiles)
        IN  ShardFiles = {[name |-> "train", id |-> Digits5(i), of |-> Digits5(T)] :
                             i \in 0..(T - 1)}

\* C22: when the first column of the header row is not "image_path", Build
\* returns an error before its producer and workers are started: they never
\* run, no shard is dispatched and no worker creates a shard file.
C22_InvalidHeaderRejected ==
    (job = "build" /\ header # "image_path") =>
        /\ mpc \in {"start", "returned"}
        /\ mpc = "returned" => ret # Nil
        /\ ppc = "idle" /\ \A w \in Workers : wpc[w] = "idle"
        /\ dispatched = <<>> /\ received = <<>> /\ processed = <<>>

\* Build has returned the header error on an input whose rows are all good
C22_Witness ==
    /\ job = "build" /\ header = "path" /\ mpc = "returned"
    /\ ret = Err("header", 0)
    /\ Len(rows) = 3 /\ \A k \in 1..3 : rows[k] = "ok"
    /\ dispatched = <<>> /\ processed = <<>>

\* the positions of the directory's entries that are files
NonDirFiles == {i \in 1..Len(files) : files[i] # "dir"}

\* the records of all the files, one file after the other
ConcatRecords ==
    LET upTo[k \in 0..Len(files)] ==
            IF k = 0 THEN <<>>
            ELSE IF files[k] = "dir" THEN upTo[k - 1]
            ELSE upTo[k - 1] \o FileRecords(k)
    IN  upTo[Len(files)]

\* the per-file statistics of the files merged in directory order
MergeOfFiles ==
    LET upTo[k \in 0..Len(files)] ==
            IF k = 0 THEN NewStats
            ELSE IF files[k] = "dir" THEN upTo[k - 1]
            ELSE StatsAdd(upTo[k - 1], fileSummary(FileRecords(k)))
    IN  upTo[Len(files)]

\* C16: when Summary returns nil, what it printed is the merge of the
\* per-file statistics of every entry that is not a directory, each file
\* aggregated exactly once whatever the thread count and the order in which
\* results arrived, and it is the statistics of the concatenation of the
\* files' records.
C16_SummaryIsMergeOfFiles ==
    (job = "summary" /\ mpc = "returned" /\ ret = Nil) =>
        /\ printed = <<MergeOfFiles>>
        /\ printed = <<fileSummary(ConcatRecords)>>
        /\ \A k \in 1..Len(aggregated) : aggregated[k] \in NonDirFiles
        /\ \A i \in NonDirFiles :
              Cardinality({k \in 1..Len(aggregated) : aggregated[k] = i}) = 1

\* two workers, a directory among the entries, and the result of the third
\* entry aggregated before the result of the first
C16_Witness ==
    /\ job = "summary" /\ mpc = "returned" /\ ret = Nil
    /\ threads = 2 /\ files = <<"ok", "dir", "ok">>
    /\ aggregated = <<3, 1>>
    /\ printed # <<>> /\ printed[1].Total = 2
    /\ printed[1].LabelText = [k \in {"cat", "dog"} |-> 1]

\* the rows info.csv should hold for the files whose results arrived, in
\* the order of arrival: one row per record, the rows of a file together
RowsOfAggregated ==
    LET rowsOf(i) ==
            LET rep[n \in 0..Len(FileRecords(i))] ==
                    IF n = 0 THEN <<>> ELSE rep[n - 1] \o ImageRow(i)
            IN  rep[Len(FileRecords(i))]
        upTo[k \in 0..Len(aggregated)] ==
            IF k = 0 THEN <<>> ELSE upTo[k - 1] \o rowsOf(aggregated[k])
    IN  upTo[Len(aggregated)]

\* C37: when Extract over a directory returns nil, info.csv is the header row
\* followed by exactly one row per record of every input file, the rows of
\* one file together, every file once, whatever the thread count and the
\* order in which the workers delivered their results.
C37_InfoCsvOneRowPerRecord ==
    (job = "extract" /\ mpc = "returned" /\ ret = Nil) =>
        /\ infoCsv = HeaderRow \o RowsOfAggregated
        /\ Len(infoCsv) = CsvRowLen * (1 + Len(ConcatRecords))
        /\ \A k \in 1..Len(aggregated) : aggregated[k] \in NonDirFiles
        /\ \A i \in NonDirFiles :
              Cardinality({k \in 1..Len(aggregated) : aggregated[k] = i}) = 1

\* two workers; the result of the second file, of two records, arrived
\* before the result of the first, and info.csv holds the header and the
\* three rows, written through a buffer smaller than the file
C37_Witness ==
    /\ job = "extract" /\ mpc = "returned" /\ ret = Nil
    /\ threads = 2 /\ files = <<"ok", "ok", "dir">>
    /\ aggregated = <<2, 1>>
    /\ infoCsv = HeaderRow \o ImageRow(2) \o ImageRow(2) \o ImageRow(1)

\* C17: when the error of a worker cancelled Summary or Extract, nothing
\* computed before is reported: Summary has printed no statistics, and
\* info.csv holds no row of a file that had been aggregated.
C17_PartialResultsDiscarded ==
    (job \in {"summary", "extract"} /\ mpc = "returned" /\ ret.kind = "file") =>
        /\ printed = <<>>
        /\ \A k \in 1..Len(infoCsv) : \A j \in 1..Len(aggregated) :
              infoCsv[k] # ImageRow(aggregated[j])[1]

(***************************************************************************)
(* The Writer over a sink that fails: Write, Flush and Error in any order  *)
(* on a Writer whose sink takes a bounded number of bytes.                 *)
(***************************************************************************)

SinkInit ==
    /\ caller = "sink" /\ written = <<>> /\ wstate = "open" /\ wlast = "new"
    /\ wr \in {NewWriterOn(room) : room \in 0..MaxRoom}
    /\ file = <<>> /\ damage = NoDamage /\ stream = <<>>
    /\ rstate = "closed" /\ rpos = 0 /\ out = <<>> /\ rerr = "nil" /\ ncalls = 0
    /\ wlog = <<>>
    /\ PipeIdle /\ StatsIdle /\ ImageIdle /\ FilesIdle

\* the entry of the log for a call that took the Writer from w to w2
Logged(op, err, w, w2) == [op |-> op, err |-> err, failed |-> w2.fails > w.fails]

\* err := w.Write(example); the error is the one its first failing write to
\* the bufio.Writer returned, which bufio has latched
SinkWriteCall(p) ==
    /\ Len(wlog) < MaxCalls
    /\ LET w2 == WriterWrite(wr, p)
       IN  /\ wr' = w2
           /\ written' = IF w2.err = 0 THEN Append(written, p) ELSE written
           /\ wlog' = Append(wlog, Logged("write", w2.err, wr, w2))
    /\ wlast' = "write"
    /\ UNCHANGED <<caller, wstate, file, damage, stream, rstate, rpos, out, rerr, ncalls>>
    /\ UNCHANGED <<pvars, svars, ivars, fvars>>

\* w.Flush()
SinkFlushCall ==
    /\ Len(wlog) < MaxCalls
    /\ LET w2 == WriterFlush(wr)
       IN  wr' = w2 /\ wlog' = Append(wlog, Logged("flush", 0, wr, w2))
    /\ wlast' = "flush"
    /\ UNCHANGED <<caller, written, wstate, file, damage, stream, rstate, rpos, out,
                   rerr, ncalls>>
    /\ UNCHANGED <<pvars, svars, ivars, fvars>>

\* err := w.Error()
SinkErrorCall ==
    /\ Len(wlog) < MaxCalls
    /\ LET w2 == WriterError(wr)
       IN  wr' = w2 /\ wlog' = Append(wlog, Logged("error", w2.err, wr, w2))
    /\ UNCHANGED <<caller, written, wstate, wlast, file, damage, stream, rstate, rpos,
                   out, rerr, ncalls>>
    /\ UNCHANGED <<pvars, svars, ivars, fvars>>

SinkNext ==
    \/ \E p \in Payloads : SinkWriteCall(p)
    \/ SinkFlushCall
    \/ SinkErrorCall

SpecSink == SinkInit /\ [][SinkNext]_vars

\* the calls before call k during which a write to the sink failed
FailedBefore(k) == {j \in 1..(k - 1) : wlog[j].failed}

\* C21: Error returns nil as long as no Write or Flush has failed on the
\* sink; once one has, every later Error returns the error of that first
\* failure and every later Write fails with it: the error stays latched,
\* also across calls of Error.
C21_ErrorLatched ==
    \A k \in 1..Len(wlog) :
        /\ (wlog[k].op = "error" /\ FailedBefore(k) = {}) => wlog[k].err = 0
        /\ (wlog[k].op \in {"error", "write"} /\ FailedBefore(k) # {}) => wlog[k].err = 1
        /\ (wlog[k].op = "write" /\ wlog[k].failed) => wlog[k].err = 1

\* a Write that succeeds, a Flush that fails on the sink, Error
\* returning that error, and a later Write failing with it
C21_Witness ==
    /\ Len(wlog) = 4
    /\ wlog[1] = [op |-> "write", err |-> 0, failed |-> FALSE]
    /\ wlog[2] = [op |-> "flush", err |-> 0, failed |-> TRUE]
    /\ wlog[3] = [op |-> "error", err |-> 1, failed |-> FALSE]
    /\ wlog[4] = [op |-> "write", err |-> 1, failed |-> FALSE]

(***************************************************************************)
(* The Image machine: an Image is marshalled to an Example and the Example *)
(* unmarshalled into a fresh Image; or an Example as a record file can     *)
(* hold it is given; and one ExampleFeature call is made on the Example.   *)
(***************************************************************************)

\* NewImage of image.go on a decoded image with bounds b
NewImage(b, id, labelID, labelRaw, labelText, filename, sourceID) ==
    [Image |-> b, ID |-> id, LabelID |-> labelID, LabelRaw |-> labelRaw,
     LabelText |-> labelText, SourceID |-> sourceID, Filename |-> filename,
     Width |-> b.maxX, Height |-> b.maxY]

\* image.DecodeConfig: the size, the format name and the colour model of an
\* encoded image, or an error
DecodeConfig(raw) ==
    IF Len(raw) = 5 /\ raw[3] >= 1 /\ raw[4] >= 1
    THEN [err |-> "nil", width |-> raw[3], height |-> raw[4],
          format |-> IF raw[1] = 255 THEN StrJpeg ELSE StrPng,
          colorspace |-> IF raw[5] = 0 THEN StrRGB ELSE StrGray]
    ELSE [err |-> "image: unknown format", width |-> 0, height |-> 0,
          format |-> <<>>, colorspace |-> <<>>]

\* Image.Read on a reader that gives raw: Raw is set, then DecodeConfig; on
\* its error Read returns with only Raw changed
ImageRead(i, raw) ==
    LET cfg == DecodeConfig(raw)
    IN  IF cfg.err # "nil" THEN [i |-> [i EXCEPT !.Raw = raw], err |-> cfg.err]
        ELSE [i |-> [i EXCEPT !.Raw = raw, !.Width = cfg.width, !.Height = cfg.height,
                              !.Format = cfg.format, !.Colorspace = cfg.colorspace],
              err |-> "nil"]

\* the nil *Image
NilImage == [nil |-> TRUE]

\* NewImage of the image.go that holds the raw bytes: the Image and a nil
\* error, or nil and the error of Read
NewImageRaw(raw, id, labelID, labelRaw, labelText, filename, sourceID) ==
    LET rd == ImageRead([ID |-> id, LabelID |-> labelID, LabelRaw |-> labelRaw,
                         LabelText |-> labelText, SourceID |-> sourceID,
                         Filename |-> filename, Width |-> 0, Height |-> 0,
                         Format |-> <<>>, Colorspace |-> <<>>, Raw |-> <<>>], raw)
    IN  IF rd.err # "nil" THEN [img |-> NilImage, err |-> rd.err]
        ELSE [img |-> rd.i, err |-> "nil"]

\* Image.ToJPEG: the raw bytes decoded and encoded again as the JPEG of the
\* Dx by Dy pixels; Format and Colorspace are set to "jpeg" and "RGB"
ToJPEG(i) ==
    LET orig == ImageDecode(i.Raw)
        b    == orig.im
    IN  IF orig.err # "nil" THEN [i |-> i, err |-> orig.err]
        ELSE [i |-> [i EXCEPT !.Raw = JpegEncode(Rect(0, 0, b.maxX - b.minX,
                                                       b.maxY - b.minY)),
                              !.Format = StrJpeg, !.Colorspace = StrRGB],
              err |-> "nil"]

\* strconv.Atoi on the bytes of a string: an optional sign and decimal
\* digits
Atoi(str) ==
    LET signed == Len(str) >= 1 /\ str[1] \in {43, 45}
        digits == IF signed THEN SubSeq(str, 2, Len(str)) ELSE str
        value[k \in 0..Len(digits)] ==
            IF k = 0 THEN 0 ELSE value[k - 1] * 10 + (digits[k] - 48)
    IN  IF digits = <<>> \/ \E k \in 1..Len(digits) : digits[k] \notin 48..57
        THEN [err |-> "strconv.Atoi: invalid syntax", n |-> 0]
        ELSE [err |-> "nil",
              n |-> IF signed /\ str[1] = 45 THEN 0 - value[Len(digits)]
                    ELSE value[Len(digits)]]

\* filepath.Base: the last element of a path, trailing separators removed
Base(path) ==
    LET last == IF \E k \in 1..Len(path) : path[k] # 47
                THEN CHOOSE k \in 1..Len(path) :
                        path[k] # 47 /\ \A m \in (k + 1)..Len(path) : path[m] = 47
                ELSE 0
        slashes == {k \in 1..last : path[k] = 47}
        from == IF slashes = {} THEN 1
                ELSE (CHOOSE k \in slashes : \A m \in slashes : m <= k) + 1
    IN  IF path = <<>> THEN <<46>>
        ELSE IF last = 0 THEN <<47>>
        ELSE SubSeq(path, from, last)

\* the part of UnmarshalCSV the two image.go files share: the row's length,
\* the four numbers, then the five fields set
UnmarshalCSVFields(i, row) ==
    IF Len(row) # 6 THEN [i |-> i, err |-> "Invalid CSV row format"]
    ELSE LET iid == Atoi(row[2])
             lid == Atoi(row[3])
             rid == Atoi(row[5])
             sid == Atoi(row[6])
         IN  IF iid.err # "nil" THEN [i |-> i, err |-> iid.err]
             ELSE IF lid.err # "nil" THEN [i |-> i, err |-> lid.err]
             ELSE IF rid.err # "nil" THEN [i |-> i, err |-> rid.err]
             ELSE IF sid.err # "nil" THEN [i |-> i, err |-> sid.err]
             ELSE [i |-> [i EXCEPT !.ID = iid.n, !.LabelID = lid.n, !.LabelText = row[4],
                                   !.LabelRaw = rid.n, !.SourceID = sid.n],
                   err |-> "nil"]

\* Image.UnmarshalCSV of image.go; f is the file at the row's path: whether
\* it can be opened, and its bytes
UnmarshalCSV(i, row, f) ==
    LET set == UnmarshalCSVFields(i, row)
        dec == ImageDecode(f.raw)
    IN  IF set.err # "nil" THEN set
        ELSE IF ~f.exists THEN [i |-> set.i, err |-> "open: no such file or directory"]
        ELSE IF dec.err # "nil" THEN [i |-> set.i, err |-> dec.err]
        ELSE [i |-> [set.i EXCEPT !.Image = dec.im, !.Filename = Base(row[1]),
                                  !.Width = dec.im.maxX, !.Height = dec.im.maxY],
              err |-> "nil"]

\* Image.UnmarshalCSV of the image.go that holds the raw bytes
UnmarshalCSVRaw(i, row, f) ==
    LET set == UnmarshalCSVFields(i, row)
        rd  == ImageRead(set.i, f.raw)
    IN  IF set.err # "nil" THEN set
        ELSE IF ~f.exists THEN [i |-> set.i, err |-> "open: no such file or directory"]
        ELSE IF rd.err # "nil" THEN rd
        ELSE [i |-> [rd.i EXCEPT !.Filename = Base(row[1])], err |-> "nil"]

\* the zero Images: &Image{}
ZeroImage ==
    [Image |-> Rect(0, 0, 0, 0), ID |-> 0, LabelID |-> 0, LabelRaw |-> 0,
     LabelText |-> <<>>, SourceID |-> 0, Filename |-> <<>>, Width |-> 0, Height |-> 0]
ZeroImageRaw ==
    [ID |-> 0, LabelID |-> 0, LabelRaw |-> 0, LabelText |-> <<>>, SourceID |-> 0,
     Filename |-> <<>>, Width |-> 0, Height |-> 0, Format |-> <<>>,
     Colorspace |-> <<>>, Raw |-> <<>>]

\* the images of the model: decoded ones at the origin and off it (a GIF
\* frame), raw ones in two formats and two colour models
DecodedImages ==
    {NewImage(b, id, lid, 12, text, StrFile, sid) :
        b \in {Rect(0, 0, 2, 3), Rect(1, 0, 3, 3)}, id \in {0, 7}, lid \in {1, 2},
        text \in {<<>>, StrCat}, sid \in {0, 10}}
RawImages ==
    {NewImageRaw(raw, id, lid, 12, text, StrFile, sid).img :
        raw \in {<<255, 216, 2, 3, 0>>, <<255, 216, 2, 3, 1>>, <<137, 80, 4, 1, 0>>},
        id \in {0, 7}, lid \in {1, 2}, text \in {<<>>, StrCat}, sid \in {0, 10}}

\* the Features a decoded Example can hold under a key: one value of each
\* kind, an empty list of each kind, and a Feature whose Kind is unset
FeaturePool ==
    {Int64Feature(7), FloatFeature(5), BytesFeature(StrCat),
     [Int64Feature(0) EXCEPT !.int64 = <<>>],
     [FloatFeature(0) EXCEPT !.float = <<>>],
     [BytesFeature(<<>>) EXCEPT !.bytes = <<>>],
     [Int64Feature(0) EXCEPT !.kind = "none", !.int64 = <<>>]}

\* the keys looked up, one of them in no Example
LookupKeys == {"image/id", "image/class/text", "image/missing"}

\* what an Example can hold under "image/encoded": nothing, an image, or a
\* BytesList with no value
EncodedPool ==
    {BytesFeature(<<255, 216, 2, 3, 0>>), [BytesFeature(<<>>) EXCEPT !.bytes = <<>>]}

\* the Feature map f with Feature e under "image/encoded"
WithEncoded(f, e) ==
    [k \in DOMAIN f \cup {"image/encoded"} |-> IF k = "image/encoded" THEN e ELSE f[k]]

\* Examples with the Features unset, with no Feature, and with Features
\* under one or both of two keys, without and with an encoded image
ExamplePool ==
    LET maps == UNION {[K -> FeaturePool] : K \in SUBSET {"image/id", "image/class/text"}}
    IN  {NoExample}
          \cup {[hasFeatures |-> TRUE, feature |-> f] : f \in maps}
          \cup {[hasFeatures |-> TRUE, feature |-> WithEncoded(f, e)] :
                   f \in maps, e \in EncodedPool}

\* the strings "7", "2", "12", "10", "x", "-1" and the path "d/a.png"
Str7 == <<55>>
Str2 == <<50>>
Str12 == <<49, 50>>
Str10 == <<49, 48>>
StrX == <<120>>
StrMinus1 == <<45, 49>>
StrPath == <<100, 47>> \o StrFile

\* CSV rows given to UnmarshalCSV: a good one, one with a negative id and a
\* bare file name, one whose label id is no number, one of five fields
CsvRows ==
    {<<StrPath, Str7, Str2, StrCat, Str12, Str10>>,
     <<StrFile, StrMinus1, Str2, <<>>, Str12, Str10>>,
     <<StrPath, Str7, StrX, StrCat, Str12, Str10>>,
     <<StrPath, Str7, Str2, StrCat, Str12>>}

\* the file at a row's path: absent, not an image, a 4 by 1 PNG
CsvFiles ==
    {[exists |-> FALSE, raw |-> <<>>], [exists |-> TRUE, raw |-> <<1, 2>>],
     [exists |-> TRUE, raw |-> <<137, 80, 4, 1, 0>>]}

ImageInit ==
    /\ CodecIdle /\ PipeIdle /\ StatsIdle /\ FilesIdle /\ wlog = <<>>
    /\ \/ ikind = "decoded" /\ im \in DecodedImages /\ ex = NoExample /\ ipc = "new"
       \/ ikind = "raw" /\ im \in RawImages /\ ex = NoExample /\ ipc = "new"
       \/ ikind = "example" /\ im = 0 /\ ex \in ExamplePool /\ ipc = "marshalled"
    /\ back = 0 /\ got = NoCall

\* example, err := img.MarshalExample()
Marshal ==
    /\ ipc = "new"
    /\ ex' = IF ikind = "decoded" THEN MarshalExample(im) ELSE MarshalExampleRaw(im)
    /\ ipc' = "marshalled"
    /\ UNCHANGED <<ikind, im, back, got>>
    /\ UNCHANGED <<cvars, pvars, svars, wlog, fvars>>

\* i := &Image{}; err := i.UnmarshalExample(example)
Unmarshal ==
    /\ ipc = "marshalled" /\ ikind \in {"decoded", "raw"}
    /\ back' = IF ikind = "decoded" THEN UnmarshalExample(ZeroImage, ex)
               ELSE UnmarshalExampleRaw(ZeroImageRaw, ex)
    /\ ipc' = "unmarshalled"
    /\ UNCHANGED <<ikind, im, ex, got>>
    /\ UNCHANGED <<cvars, pvars, svars, wlog, fvars>>

\* img := &terf.Image{}; err = img.UnmarshalExample(ex) on an Example read
\* from a record file, as extractFile does, with either image.go
UnmarshalRecord(v) ==
    /\ ipc = "marshalled" /\ ikind = "example"
    /\ back' = IF v = "decoded" THEN UnmarshalExample(ZeroImage, ex)
               ELSE UnmarshalExampleRaw(ZeroImageRaw, ex)
    /\ got' = [fn |-> "UnmarshalExample", key |-> v, res |-> Returns(0)]
    /\ ipc' = "unmarshalled"
    /\ UNCHANGED <<ikind, im, ex>>
    /\ UNCHANGED <<cvars, pvars, svars, wlog, fvars>>

\* err := img.ToJPEG(), before the Image is marshalled
Convert ==
    /\ ipc = "new" /\ ikind = "raw"
    /\ LET r == ToJPEG(im)
       IN  /\ im' = r.i
           /\ got' = [fn |-> "ToJPEG", key |-> "", res |-> Returns(r.err)]
    /\ UNCHANGED <<ikind, ex, back, ipc>>
    /\ UNCHANGED <<cvars, pvars, svars, wlog, fvars>>

\* err := img.UnmarshalCSV(row), with f the file at the row's path
ReadCSV(row, f) ==
    /\ ipc = "new" /\ ikind \in {"decoded", "raw"}
    /\ LET r == IF ikind = "decoded" THEN UnmarshalCSV(im, row, f)
                ELSE UnmarshalCSVRaw(im, row, f)
       IN  /\ im' = r.i
           /\ got' = [fn |-> "UnmarshalCSV", key |-> "", res |-> Returns(r.err)]
    /\ UNCHANGED <<ikind, ex, back, ipc>>
    /\ UNCHANGED <<cvars, pvars, svars, wlog, fvars>>

\* one call of ExampleFeatureInt64, ExampleFeatureFloat or
\* ExampleFeatureBytes on the Example
LookupInt64(key) ==
    /\ ipc = "marshalled"
    /\ got' = [fn |-> "Int64", key |-> key, res |-> ExampleFeatureInt64(ex, key)]
    /\ ipc' = "looked"
    /\ UNCHANGED <<ikind, im, ex, back>>
    /\ UNCHANGED <<cvars, pvars, svars, wlog, fvars>>

LookupFloat(key) ==
    /\ ipc = "marshalled"
    /\ got' = [fn |-> "Float", key |-> key, res |-> ExampleFeatureFloat(ex, key)]
    /\ ipc' = "looked"
    /\ UNCHANGED <<ikind, im, ex, back>>
    /\ UNCHANGED <<cvars, pvars, svars, wlog, fvars>>

LookupBytes(key) ==
    /\ ipc = "marshalled"
    /\ got' = [fn |-> "Bytes", key |-> key, res |-> ExampleFeatureBytes(ex, key)]
    /\ ipc' = "looked"
    /\ UNCHANGED <<ikind, im, ex, back>>
    /\ UNCHANGED <<cvars, pvars, svars, wlog, fvars>>

ImageNext ==
    \/ Marshal
    \/ Unmarshal
    \/ \E v \in {"decoded", "raw"} : UnmarshalRecord(v)
    \/ Convert
    \/ \E row \in CsvRows, f \in CsvFiles : ReadCSV(row, f)
    \/ \E key \in LookupKeys : LookupInt64(key)
    \/ \E key \in LookupKeys : LookupFloat(key)
    \/ \E key \in LookupKeys : LookupBytes(key)

SpecImage == ImageInit /\ [][ImageNext]_vars

\* C24: the Example of an Image unmarshalled into a fresh Image restores
\* every metadata field of the Image: ID, Width, Height, LabelID, LabelRaw,
\* LabelText, SourceID, Filename, and Format and Colorspace where the Image
\* has them.
C24_UnmarshalInvertsMarshal ==
    (ipc = "unmarshalled" /\ ikind \in {"decoded", "raw"}) =>
        /\ back.i.ID = im.ID /\ back.i.Width = im.Width /\ back.i.Height = im.Height
        /\ back.i.LabelID = im.LabelID /\ back.i.LabelRaw = im.LabelRaw
        /\ back.i.LabelText = im.LabelText /\ back.i.SourceID = im.SourceID
        /\ back.i.Filename = im.Filename
        /\ ikind = "raw" =>
              (back.i.Format = im.Format /\ back.i.Colorspace = im.Colorspace)

\* the value the claim gives an ExampleFeature call
ClaimedValue(fn, example, key) ==
    LET default == IF fn = "Bytes" THEN <<>> ELSE 0
        kind    == CASE fn = "Int64" -> "Int64List" [] fn = "Float" -> "FloatList"
                     [] OTHER -> "BytesList"
        list(f) == CASE fn = "Int64" -> f.int64 [] fn = "Float" -> f.float
                     [] OTHER -> f.bytes
    IN  IF ~example.hasFeatures \/ key \notin DOMAIN example.feature THEN default
        ELSE IF example.feature[key].kind # kind THEN default
        ELSE IF list(example.feature[key]) = <<>> THEN default
        ELSE list(example.feature[key])[1]

\* C25: ExampleFeatureInt64, ExampleFeatureFloat and ExampleFeatureBytes
\* return a value for every Example and never fail: the default when the key
\* is not found or holds a feature of another kind, otherwise the first
\* stored value.
C25_LookupNeverFails ==
    ipc = "looked" =>
        /\ ~got.res.panic
        /\ got.res.val = ClaimedValue(got.fn, ex, got.key)


(***************************************************************************)
(* The worker machine: one worker and its open files.                      *)
(***************************************************************************)
\* what a shard is for the worker: shard.Compress, and the operation that
\* fails while it is written
WorkerShardKinds == [compress : BOOLEAN, fail : {"none", "create", "write"}]

\* out, the os.File of shard n, and zout, the zlib.Writer over it
OutFile(n) == [kind |-> "file", id |-> n]
ZlibStream(n) == [kind |-> "zlib", id |-> n]

\* the open handles after the deferred Close calls have run, last deferred
\* first
RunDefers(open, defers) ==
    LET after[k \in 0..Len(defers)] ==
            IF k = 0 THEN open
            ELSE after[k - 1] \ {defers[Len(defers) + 1 - k]}
    IN  after[Len(defers)]

WorkerInit ==
    /\ CodecIdle /\ PipeIdle /\ StatsIdle /\ ImageIdle /\ wlog = <<>>
    /\ fmode \in {"build", "batch"}
    /\ fshards \in SeqsUpTo(WorkerShardKinds, MaxWorkerShards)
    /\ fpc = "range" /\ fcur = 0 /\ fnext = 1
    /\ fopen = {} /\ fdefer = <<>> /\ fdone = FALSE /\ fret = Nil

\* the worker returns err: the deferred calls of the running function run
WorkerReturn(err) ==
    /\ fpc' = "exit" /\ fret' = err
    /\ fopen' = RunDefers(fopen, fdefer) /\ fdefer' = <<>>

\* "for shard := range shards": the next shard, or the end of the loop and
\* "return nil" when the channel is closed
WorkerRange ==
    /\ fpc = "range"
    /\ IF fnext > Len(fshards)
       THEN WorkerReturn(Nil) /\ UNCHANGED <<fcur, fnext>>
       ELSE /\ fcur' = fnext /\ fnext' = fnext + 1 /\ fpc' = "create"
            /\ UNCHANGED <<fopen, fdefer, fret>>
    /\ UNCHANGED <<fmode, fshards, fdone>>
    /\ UNCHANGED <<cvars, pvars, svars, wlog, ivars>>

\* os.Create, "defer out.Close()", and for a compressed shard
\* zlib.NewWriter and "defer zout.Close()".  An error of os.Create is
\* returned: by process(shard) to Build's worker, which returns it, or by
\* Batch's process itself.
WorkerCreate ==
    /\ fpc = "create"
    /\ LET sh == fshards[fcur]
       IN  IF sh.fail = "create"
           THEN WorkerReturn(Err("create", fcur))
           ELSE /\ fopen' = fopen \cup {OutFile(fcur)}
                              \cup (IF sh.compress THEN {ZlibStream(fcur)} ELSE {})
                /\ fdefer' = fdefer \o <<OutFile(fcur)>>
                               \o (IF sh.compress THEN <<ZlibStream(fcur)>> ELSE <<>>)
                /\ fpc' = "write"
                /\ UNCHANGED fret
    /\ UNCHANGED <<fmode, fshards, fcur, fnext, fdone>>
    /\ UNCHANGED <<cvars, pvars, svars, wlog, ivars>>

\* the loop over shard.Images.  In Build, process(shard) returns the error of
\* a Write, or nil after the last image, and its deferred calls run; the
\* worker returns an error.  In Batch the error is logged and the loop over
\* the shards goes on in the same call of process: nothing deferred runs.
WorkerWrite ==
    /\ fpc = "write"
    /\ IF fmode = "build"
       THEN IF fshards[fcur].fail = "write"
            THEN WorkerReturn(Err("write", fcur))
            ELSE /\ fopen' = RunDefers(fopen, fdefer) /\ fdefer' = <<>>
                 /\ fpc' = "select" /\ UNCHANGED fret
       ELSE fpc' = "select" /\ UNCHANGED <<fopen, fdefer, fret>>
    /\ UNCHANGED <<fmode, fshards, fcur, fnext, fdone>>
    /\ UNCHANGED <<cvars, pvars, svars, wlog, ivars>>

\* select { default: ; case <-ctx.Done(): return ctx.Err() }
WorkerSelect ==
    /\ fpc = "select"
    /\ IF fdone
       THEN WorkerReturn(Canceled)
       ELSE fpc' = "range" /\ UNCHANGED <<fopen, fdefer, fret>>
    /\ UNCHANGED <<fmode, fshards, fcur, fnext, fdone>>
    /\ UNCHANGED <<cvars, pvars, svars, wlog, ivars>>

\* another task of the errgroup returns an error: ctx.Done() is closed
CtxCancel ==
    /\ fpc \notin {"idle", "exit"} /\ ~fdone
    /\ fdone' = TRUE
    /\ UNCHANGED <<fmode, fshards, fpc, fcur, fnext, fopen, fdefer, fret>>
    /\ UNCHANGED <<cvars, pvars, svars, wlog, ivars>>

WorkerNext ==
    \/ WorkerRange
    \/ WorkerCreate
    \/ WorkerWrite
    \/ WorkerSelect
    \/ CtxCancel

SpecWorker == WorkerInit /\ [][WorkerNext]_vars

\* the shard output files a worker has open
OpenFiles == {h \in fopen : h.kind = "file"}

\* C38: Build's worker and Batch's worker have at most one shard output file
\* open at any moment, and when the worker takes its next shard the output
\* file and the zlib stream of the shard before are closed.
C38_OneOpenFilePerWorker ==
    /\ Cardinality(OpenFiles) <= 1
    /\ fpc \in {"range", "create"} => fopen = {}

=============================================================================
